---- MODULE Spec2Model ----
(***************************************************************************)
(* A model of the inovo-rs command layer.                                  *)
(*                                                                         *)
(* Spec     the Robot client of src/robot/mod.rs with the RAII guards of   *)
(*          src/context/mod.rs: every `with_*` call sends a push-variant   *)
(*          instruction and, once acknowledged, returns a ContextGuard     *)
(*          whose drop sends Pop.                                          *)
(* SpecCtx  the context machine with an explicit stack of reversible       *)
(*          operations (enter / exit) that src/geometry/mod.rs and         *)
(*          src/robot/motion_param.rs are written against, driving the     *)
(*          MotionContext of src/geometry/mod.rs and a simulated robot.    *)
(* SpecParam  the same machine with its ParamStack, driving the            *)
(*          ParamContext of src/robot/motion_param.rs.                     *)
(* SpecSeq  sequence / with_sequence of src/robot/mod.rs.                  *)
(* SpecWire Robot::instruction on the socket, one step per write and read. *)
(* SpecCodec  the decoding of replies (FromRobot, instruction_return).     *)
(* SpecClamp  the MotionParam value of src/robot/motion_param.rs.          *)
(* SpecMachine  the machine of SpecParam with its plain commands           *)
(*          (set_param, sleep, the queries, sequence) next to its contexts.*)
(* SpecEncode  Instruction::tokens of src/iva/mod.rs and the sending of an *)
(*          encoded instruction.                                           *)
(* SpecPose the decoding of pose replies (src/geometry/transform.rs,       *)
(*          src/geometry/joint.rs).                                        *)
(* SpecBuilder  the CommandSequence builder of                             *)
(*          src/robot/command_sequence.rs.                                 *)
(* SpecLog  the Logger of src/logger/mod.rs and its targets.               *)
(* SpecBridge  the service calls of src/ros_bridge/mod.rs.                 *)
(* SpecChain  a chain of enters in one statement and the drops of its      *)
(*          temporary guards.                                              *)
(* SpecNest relative Motion Contexts nested and exited innermost first.    *)
(* SpecInovo  Robot::new_inovo: bind, remote start, accept.                *)
(* SpecRolling  the files of a RollingFileTarget of src/logger/target.rs.  *)
(* SpecPolling  RosBridge::until_sequence_stop, one step per poll.         *)
(* SpecSocket  the listener, the client threads and the handler threads of *)
(*          tests/socket.rs, one step per call on a Stream;                *)
(*          SpecSocketFair adds that a thread that can run does run.       *)
(***************************************************************************)
EXTENDS Integers, Sequences, FiniteSets, TLC

VARIABLES
    guards,     \* Spec: the chain of live ContextGuards, innermost last; each is the wire index of its push
    wire,       \* Spec: every round trip so far: [inst, outcome, by]
    result,     \* what the last call returned to its caller
    op,         \* the last call
    stack,      \* SpecCtx: the context stack of the machine, top last
    robot,      \* SpecCtx: the remote robot's pose, [frame, joint]
    sent,       \* SpecCtx: the instructions the last call sent, in order; the calls made (SpecBridge, SpecInovo),
                \* the directory (SpecRolling), the polls' states (SpecPolling), the connections (SpecSocket)
    exited,     \* SpecCtx: the entry the last exit() popped (<<>> when none)
    param_stack,\* SpecParam: the machine's ParamStack, top last
    param_sent, \* SpecParam: the MotionParam of the last SetParameter sent (<<>> when none)
    given,      \* the argument of the last call: a CommandSequence (SpecSeq), <<MotionParam>> (SpecParam),
                \* the MotionContext as built and as enter_fn left it (SpecCtx)
    chan,       \* SpecWire: the socket, [pc, log]: where the caller is in instruction, and every write and read so far
    reply,      \* SpecCodec: the reply text the last call read
    param       \* SpecClamp: the MotionParam the caller holds

vars == <<guards, wire, result, op, stack, robot, sent, exited,
          param_stack, param_sent, given, chan, reply, param>>

\* the variables the command layer of Spec and SpecCtx leaves alone
aux == <<param_stack, param_sent, given, chan, reply, param>>

----------------------------------------------------------------------------
(* Bounds of the exploration *)

\* deepest chain of nested live guards
MaxGuards == 2
\* number of round trips on the wire
MaxWire == 5
\* deepest context stack
MaxCtx == 1
\* deepest context stack of SpecParam
MaxParamCtx == 2
\* longest ParamStack
MaxParamStack == 4
\* longest CommandSequence
MaxSeq == 2
\* number of round trips on the wire of SpecSeq
MaxSeqWire == 4
\* number of instructions of SpecWire
MaxCalls == 3
\* longest CommandSequence built in SpecBuilder
MaxBuilt == 2
\* number of messages given to one Logger
MaxLogged == 2
\* longest chain of enters in one statement
MaxChain == 3
\* deepest nest of relative Motion Contexts entered and exited as one
MaxNest == 2
\* the largest rolling_number and trigger_size a rolling file is made with,
\* and the messages it is given to write
MaxRolling == 3
MaxTrigger == 2
MaxWrites == 4
\* the polls one until_sequence_stop is followed through
MaxPolls == 4
\* the client threads of socket_test and the rounds of each (five clients
\* and MSG_COUNT = 100 in the test)
MaxClients == 2
MSG_COUNT == 2

----------------------------------------------------------------------------
(* The transport and the reply check (src/robot/mod.rs) *)

\* What one round trip can come to: the reply text "OK", any other reply
\* text, or a failure of the socket write or read.
Outcomes == {"OK", "NotOK", "SocketError"}

\* Robot::instruction: write the request, read the reply; `?` hands a socket
\* failure to the caller, otherwise the reply text is returned.
instruction(outcome) ==
    IF outcome = "SocketError"
    THEN [ok |-> FALSE, val |-> "SocketError"]
    ELSE [ok |-> TRUE, val |-> outcome]

instruction_assert_ok_any_reply(outcome) ==
    LET res == instruction(outcome)
    IN  IF ~res.ok THEN res.val ELSE "Ok"

\* IvaRobot::instruction_assert_ok: Ok only for the literal "OK".
instruction_assert_ok(outcome) ==
    LET res == instruction(outcome)
    IN  IF ~res.ok THEN res.val
        ELSE IF res.val = "OK" THEN "Ok" ELSE "ResponseError"

----------------------------------------------------------------------------
(* Guards (src/context/mod.rs) over the Robot (src/robot/mod.rs) *)

RoundTrip(inst, outcome, by) == [inst |-> inst, outcome |-> outcome, by |-> by]

\* Room on the wire for one more round trip besides the Pop every live guard
\* still owes.
Room(n) == Len(wire) + Len(guards) + n <= MaxWire

droppable_outermost(gs) == 1

\* The guard whose drop can run: a guard obtained through another guard
\* borrows it mutably (guard: &'a mut T, reached by DerefMut), so only the
\* innermost guard of a chain can be dropped or used.
droppable(gs) == Len(gs)

\* IvaContext::context_drop: `let _ = machine.pop();` the result of the pop
\* is discarded and the drop returns ().
context_drop(outcome) == "Unit"

guard_kept(gs, i, outcome) ==
    IF outcome = "OK" THEN [k \in 1..(Len(gs) - 1) |-> IF k < i THEN gs[k] ELSE gs[k + 1]]
    ELSE gs

guard_never_consumed(gs, i, outcome) == gs

guard_all_consumed(gs, i, outcome) == <<>>

\* Drop for ContextGuard consumes the guard whatever context_drop did.
guard_consumed(gs, i, outcome) ==
    [k \in 1..(Len(gs) - 1) |-> IF k < i THEN gs[k] ELSE gs[k + 1]]

guard_always(gs, outcome, id) == Append(gs, id)

\* IvaRobot::with_execute / with_dequeue: `instruction_assert_ok(push)?` comes
\* first; ContextGuard::new runs only when it returned Ok.
guard_new(gs, outcome, id) ==
    IF instruction_assert_ok(outcome) = "Ok" THEN Append(gs, id) ELSE gs

\* IvaRobot::execute, through the innermost live guard or the robot itself.
execute ==
    /\ Room(1)
    /\ \E o \in Outcomes :
        /\ wire' = Append(wire, RoundTrip("Execute", o, 0))
        /\ result' = instruction_assert_ok(o)
    /\ op' = "execute"
    /\ UNCHANGED <<guards, stack, robot, sent, exited, aux>>

\* IvaRobot::with_execute followed by ContextGuard::new (IvaContext's
\* context_enter does nothing).
with_execute ==
    /\ Len(guards) < MaxGuards
    /\ Room(2)
    /\ \E o \in Outcomes :
        /\ wire' = Append(wire, RoundTrip("ExecutePush", o, 0))
        /\ result' = instruction_assert_ok(o)
        /\ guards' = guard_new(guards, o, Len(wire) + 1)
    /\ op' = "with_execute"
    /\ UNCHANGED <<stack, robot, sent, exited, aux>>

\* Drop for ContextGuard: context_drop (IvaContext: machine.pop()), then the
\* guard is gone.
guard_drop ==
    /\ guards # <<>>
    /\ \E o \in Outcomes :
        LET i == droppable(guards)
        IN  /\ wire' = Append(wire, RoundTrip("Pop", o, guards[i]))
            /\ result' = context_drop(o)
            /\ guards' = guard_consumed(guards, i, o)
    /\ op' = "drop"
    /\ UNCHANGED <<stack, robot, sent, exited, aux>>

\* IvaRobot::pop called directly.
pop ==
    /\ Room(1)
    /\ \E o \in Outcomes :
        /\ wire' = Append(wire, RoundTrip("Pop", o, 0))
        /\ result' = instruction_assert_ok(o)
    /\ op' = "pop"
    /\ UNCHANGED <<guards, stack, robot, sent, exited, aux>>

----------------------------------------------------------------------------
(* Poses (src/geometry/joint.rs, src/geometry/transform.rs)                *)
(*                                                                         *)
(* A Transform is kept to a translation along x and a rotation about z by  *)
(* a multiple of 180 degrees (y, z, rx, ry are 0), a JointCoord to its     *)
(* first two joints: both families are closed under the operations below,  *)
(* and the arithmetic is exact.                                            *)

\* The poses the robot can take (its workspace).
Coords == {0, 1}
Frames == [x : Coords, rz : {0, 180}]
Joints == {<<a, b>> : a \in Coords, b \in Coords}

identity == [x |-> 0, rz |-> 0]

\* Mul for Transform: self.isometry() * rhs.isometry(), the rotation of self
\* applied to the translation of rhs.
mul(a, b) ==
    [x |-> a.x + (IF a.rz = 180 THEN -b.x ELSE b.x), rz |-> (a.rz + b.rz) % 360]

\* Transform::inverse: the inverse isometry, (R, t) -> (R^-1, -R^-1 t).
inverse(a) ==
    [x |-> IF a.rz = 180 THEN a.x ELSE -a.x, rz |-> (360 - a.rz) % 360]

neg_transform_fieldwise(a) == [x |-> -a.x, rz |-> (360 - a.rz) % 360]

\* Neg for Transform
neg_transform(a) == inverse(a)

neg_joint_first_only(j) == <<-j[1], j[2]>>

\* Neg for JointCoord: every joint negated
neg_joint(j) == <<-j[1], -j[2]>>

\* Add for JointCoord
add_joint(a, b) == <<a[1] + b[1], a[2] + b[2]>>

TransformPose(t) == [kind |-> "Transform", v |-> t]
JointPose(j) == [kind |-> "Joint", v |-> j]

----------------------------------------------------------------------------
(* The remote robot the machine talks to *)

InSpace(rb) == rb.frame \in Frames /\ rb.joint \in Joints

\* The pose a Motion command asks the robot to take: an absolute motion goes
\* to the target, a relative motion composes the delta with the pose held.
robot_target(rb, motion_type, pose) ==
    IF motion_type \in {"Linear", "Joint"}
    THEN pose.v
    ELSE IF pose.kind = "Joint" THEN add_joint(rb.joint, pose.v)
         ELSE mul(rb.frame, pose.v)

\* The robot states a Motion command can end in when it is carried out: the
\* pose of the commanded kind is the target; the pose of the other kind
\* follows from the arm's kinematics, which the client does not know.
robot_moved(rb, motion_type, pose) ==
    LET t == robot_target(rb, motion_type, pose)
    IN  IF pose.kind = "Joint"
        THEN {[frame |-> f, joint |-> t] : f \in Frames}
        ELSE {[frame |-> t, joint |-> j] : j \in Joints}

\* The robot states one Execute round trip with outcome o can end in: the
\* command is carried out when the reply is OK, not when the reply is anything
\* else; when the socket fails the client cannot tell.
robot_after(rb, motion_type, pose, o) ==
    LET moved == {r \in robot_moved(rb, motion_type, pose) : InSpace(r)}
    IN  CASE o = "OK" -> moved
          [] o = "NotOK" -> {rb}
          [] OTHER -> moved \cup {rb}

\* current_joint / current_frame: the robot's pose of the kind asked for.
current_pose(rb, kind) == IF kind = "Joint" THEN rb.joint ELSE rb.frame

----------------------------------------------------------------------------
(* MotionContext (src/geometry/mod.rs) *)

Motion(motion_type, pose) == [inst |-> "Execute", motion_type |-> motion_type, pose |-> pose]
Current(kind) == [inst |-> "Current", kind |-> kind]

\* The (motion type, pose) pairs contexts and plain motions are built from.
MotionInputs ==
    { <<"Linear", TransformPose([x |-> 1, rz |-> 180])>>,
      <<"Joint", JointPose(<<1, 1>>)>>,
      <<"Joint", TransformPose([x |-> 1, rz |-> 0])>>,
      <<"LinearRelative", TransformPose([x |-> 1, rz |-> 180])>>,
      <<"JointRelative", JointPose(<<0, 1>>)>> }

\* MotionContext::new
MotionContext(motion_type, pose) == [motion_type |-> motion_type, pose |-> pose]

enter_fn_stores_early(ctx, cur, qo, o) ==
    IF ctx.motion_type \in {"Joint", "Linear"}
    THEN IF qo # "OK"
         THEN [res |-> "SocketError", ctx |-> ctx, sent |-> <<Current(ctx.pose.kind)>>]
         ELSE [res |-> instruction_assert_ok(o),
               ctx |-> [ctx EXCEPT !.pose.v = cur],
               sent |-> <<Current(ctx.pose.kind), Motion(ctx.motion_type, ctx.pose)>>]
    ELSE [res |-> instruction_assert_ok(o),
          ctx |-> [ctx EXCEPT !.pose.v = IF ctx.pose.kind = "Joint"
                                          THEN neg_joint(@) ELSE neg_transform(@)],
          sent |-> <<Motion(ctx.motion_type, ctx.pose)>>]

enter_fn_moves_first(ctx, cur, qo, o) ==
    IF ctx.motion_type \in {"Joint", "Linear"}
    THEN [res |-> IF qo # "OK" THEN "SocketError" ELSE instruction_assert_ok(o),
          ctx |-> IF qo = "OK" /\ instruction_assert_ok(o) = "Ok"
                  THEN [ctx EXCEPT !.pose.v = cur]
                  ELSE ctx,
          sent |-> <<Motion(ctx.motion_type, ctx.pose), Current(ctx.pose.kind)>>]
    ELSE [res |-> instruction_assert_ok(o),
          ctx |-> IF instruction_assert_ok(o) = "Ok"
                  THEN [ctx EXCEPT !.pose.v = IF ctx.pose.kind = "Joint"
                                              THEN neg_joint(@) ELSE neg_transform(@)]
                  ELSE ctx,
          sent |-> <<Motion(ctx.motion_type, ctx.pose)>>]

enter_fn_keeps_target(ctx, cur, qo, o) ==
    IF ctx.motion_type \in {"Joint", "Linear"}
    THEN IF qo # "OK"
         THEN [res |-> "SocketError", ctx |-> ctx, sent |-> <<Current(ctx.pose.kind)>>]
         ELSE [res |-> instruction_assert_ok(o), ctx |-> ctx,
               sent |-> <<Current(ctx.pose.kind), Motion(ctx.motion_type, ctx.pose)>>]
    ELSE [res |-> instruction_assert_ok(o),
          ctx |-> IF instruction_assert_ok(o) = "Ok"
                  THEN [ctx EXCEPT !.pose.v = IF ctx.pose.kind = "Joint"
                                              THEN neg_joint(@) ELSE neg_transform(@)]
                  ELSE ctx,
          sent |-> <<Motion(ctx.motion_type, ctx.pose)>>]

\* Context<T> for MotionContext, enter_fn. cur is the pose the robot holds
\* (of the kind of self.pose), qo the outcome of the current-pose query and
\* o the outcome of the Execute round trip; each `?` returns at once.
enter_fn(ctx, cur, qo, o) ==
    IF ctx.motion_type \in {"Joint", "Linear"}
    THEN IF qo # "OK"
         THEN [res |-> "SocketError", ctx |-> ctx, sent |-> <<Current(ctx.pose.kind)>>]
         ELSE [res |-> instruction_assert_ok(o),
               ctx |-> IF instruction_assert_ok(o) = "Ok"
                       THEN [ctx EXCEPT !.pose.v = cur]
                       ELSE ctx,
               sent |-> <<Current(ctx.pose.kind), Motion(ctx.motion_type, ctx.pose)>>]
    ELSE [res |-> instruction_assert_ok(o),
          ctx |-> IF instruction_assert_ok(o) = "Ok"
                  THEN [ctx EXCEPT !.pose.v = IF ctx.pose.kind = "Joint"
                                              THEN neg_joint(@) ELSE neg_transform(@)]
                  ELSE ctx,
          sent |-> <<Motion(ctx.motion_type, ctx.pose)>>]

exit_fn_linear(ctx, o) ==
    [res |-> instruction_assert_ok(o), sent |-> <<Motion("Linear", ctx.pose)>>]

\* Context<T> for MotionContext, exit_fn
exit_fn(ctx, o) ==
    [res |-> instruction_assert_ok(o), sent |-> <<Motion(ctx.motion_type, ctx.pose)>>]

----------------------------------------------------------------------------
(* The context machine: enter / exit over the stack of entered operations *)

\* What the machine remembers of an entered operation: the operation itself,
\* and, for the record, the pose it was built with, the robot's pose of that
\* kind just before the enter, and whether a Motion was sent since.
Entry(ctx, arg, before) == [ctx |-> ctx, arg |-> arg, before |-> before, inner |-> FALSE]

touched(st) == [k \in 1..Len(st) |-> [st[k] EXCEPT !.inner = TRUE]]

SentMotion(s) == \E k \in 1..Len(s) : s[k].inst = "Execute"

stack_push_always(st, res, entry) == Append(st, entry)

\* enter(op): op is appended only when op.enter(machine) succeeded.
stack_push(st, res, entry) == IF res = "Ok" THEN Append(st, entry) ELSE st

stack_pop_silent(st) ==
    IF st = <<>>
    THEN [res |-> "Ok", stack |-> <<>>, top |-> <<>>]
    ELSE [res |-> "Ok", stack |-> SubSeq(st, 1, Len(st) - 1), top |-> <<st[Len(st)]>>]

\* exit(): the top entry is taken off the stack, or NoContextToExit.
stack_pop(st) ==
    IF st = <<>>
    THEN [res |-> "NoContextToExit", stack |-> <<>>, top |-> <<>>]
    ELSE [res |-> "Ok", stack |-> SubSeq(st, 1, Len(st) - 1), top |-> <<st[Len(st)]>>]

\* enter(MotionContext::new(motion_type, pose))
enter ==
    /\ Len(stack) < MaxCtx
    /\ \E in \in MotionInputs, qo \in {"OK", "SocketError"}, o \in Outcomes :
        LET ctx == MotionContext(in[1], in[2])
            cur == current_pose(robot, ctx.pose.kind)
            r == enter_fn(ctx, cur, qo, o)
            queried == r.sent[1].inst = "Current"
            st == IF SentMotion(r.sent) THEN touched(stack) ELSE stack
        IN  \* outcomes of round trips that never happen are not told apart
            /\ ~queried => qo = "OK"
            /\ ~SentMotion(r.sent) => o = "OK"
            /\ robot' \in (IF SentMotion(r.sent)
                           THEN robot_after(robot, ctx.motion_type, ctx.pose, o)
                           ELSE {robot})
            /\ stack' = stack_push(st, r.res, Entry(r.ctx, ctx.pose, cur))
            /\ result' = r.res
            /\ sent' = r.sent
            /\ given' = <<ctx, r.ctx>>
    /\ op' = "enter"
    /\ exited' = <<>>
    /\ UNCHANGED <<guards, wire, param_stack, param_sent, chan, reply, param>>

\* exit()
exit ==
    LET p == stack_pop(stack)
    IN  /\ IF p.top = <<>>
           THEN /\ result' = p.res
                /\ sent' = <<>>
                /\ stack' = p.stack
                /\ robot' = robot
           ELSE \E o \in Outcomes :
                LET top == p.top[1]
                    r == exit_fn(top.ctx, o)
                IN  /\ robot' \in robot_after(robot, top.ctx.motion_type, top.ctx.pose, o)
                    /\ stack' = touched(p.stack)
                    /\ result' = r.res
                    /\ sent' = r.sent
        /\ exited' = p.top
        /\ op' = "exit"
        /\ given' = <<>>
        /\ UNCHANGED <<guards, wire, param_stack, param_sent, chan, reply, param>>

\* A plain motion: execute(RobotCommand::Motion(motion_type, pose))
motion ==
    /\ \E in \in MotionInputs, o \in Outcomes :
        /\ robot' \in robot_after(robot, in[1], in[2], o)
        /\ result' = instruction_assert_ok(o)
        /\ sent' = <<Motion(in[1], in[2])>>
    /\ stack' = touched(stack)
    /\ op' = "motion"
    /\ exited' = <<>>
    /\ given' = <<>>
    /\ UNCHANGED <<guards, wire, param_stack, param_sent, chan, reply, param>>

----------------------------------------------------------------------------
(* MotionParam (src/robot/motion_param.rs)                                 *)
(*                                                                         *)
(* An f64 is a record: nan tells a NaN from a number, v is the number in   *)
(* thousandths (0.01 is 10, 100.0 is 100000).                              *)

F(v) == [nan |-> FALSE, v |-> v]
NaN == [nan |-> TRUE, v |-> 0]

DEFAULT_SPEED == 50000
DEFAULT_ACCEL == 50000
DEFAULT_BLEND_LINEAR == 10
DEFAULT_BLEND_ANGULAR == 10
DEFAULT_TCP_SPEED_LINEAR == 1000000
DEFAULT_TCP_SPEED_ANGULAR == 720000

MIN_PERCENT == 10
MAX_PERCENT == 100000
MIN_LENGHT == 10
MAX_LENGHT == 1000000
MIN_ANGLE == 1
MAX_ANGLE == 720000

\* f64::clamp(self, min, max): `if self < min { min } else if self > max
\* { max } else { self }`; both comparisons are false for a NaN, which comes
\* back as it is.
clamp_f64(x, min, max) ==
    IF x.nan THEN x
    ELSE IF x.v < min THEN F(min)
    ELSE IF x.v > max THEN F(max)
    ELSE x

\* MotionParam::clamp
clamp(p) ==
    [speed |-> clamp_f64(p.speed, MIN_PERCENT, MAX_PERCENT),
     accel |-> clamp_f64(p.accel, MIN_PERCENT, MAX_PERCENT),
     blend_linear |-> clamp_f64(p.blend_linear, MIN_LENGHT, MAX_LENGHT),
     blend_angular |-> clamp_f64(p.blend_angular, MIN_ANGLE, MAX_ANGLE),
     tcp_speed_linear |-> clamp_f64(p.tcp_speed_linear, MIN_LENGHT, MAX_LENGHT),
     tcp_speed_angular |-> clamp_f64(p.tcp_speed_angular, MIN_ANGLE, MAX_ANGLE)]

\* the struct literal of MotionParam, field by field
MotionParam(speed, accel, blend_linear, blend_angular, tcp_speed_linear, tcp_speed_angular) ==
    [speed |-> speed, accel |-> accel,
     blend_linear |-> blend_linear, blend_angular |-> blend_angular,
     tcp_speed_linear |-> tcp_speed_linear, tcp_speed_angular |-> tcp_speed_angular]

\* MotionParam::new
MotionParam_new(speed, accel, blend_linear, blend_angular, tcp_speed_linear, tcp_speed_angular) ==
    clamp(MotionParam(speed, accel, blend_linear, blend_angular,
                      tcp_speed_linear, tcp_speed_angular))

\* Default for MotionParam
MotionParam_default ==
    MotionParam_new(F(DEFAULT_SPEED), F(DEFAULT_ACCEL),
                    F(DEFAULT_BLEND_LINEAR), F(DEFAULT_BLEND_ANGULAR),
                    F(DEFAULT_TCP_SPEED_LINEAR), F(DEFAULT_TCP_SPEED_ANGULAR))

\* the setters: the field is assigned, then the whole value is clamped
set_speed(p, percent) == clamp([p EXCEPT !.speed = percent])
set_accel(p, percent) == clamp([p EXCEPT !.accel = percent])
set_blend_linear(p, mm) == clamp([p EXCEPT !.blend_linear = mm])
set_blend_angular(p, degree) == clamp([p EXCEPT !.blend_angular = degree])
set_tcp_speed_linear(p, mm) == clamp([p EXCEPT !.tcp_speed_linear = mm])
set_tcp_speed_angular(p, degree) == clamp([p EXCEPT !.tcp_speed_angular = degree])

\* The f64 values callers pass: zero, a number above every range, and a NaN.
SetterInputs == {F(0), F(2000000), NaN}
\* the values the constructor is tried with
NewInputs == {F(0), F(2000000)}
\* the numbers a serialized MotionParam is tried with
SerializedInputs == {F(0), F(50000)}

\* the rest of the model is left alone by the calls on a MotionParam
clamp_frame ==
    UNCHANGED <<guards, wire, result, stack, robot, sent, exited,
                param_stack, param_sent, given, chan, reply>>

\* MotionParam::new(..)
call_new ==
    /\ \E a, b, c, d, e, f \in NewInputs : param' = MotionParam_new(a, b, c, d, e, f)
    /\ op' = "new"
    /\ clamp_frame

\* MotionParam::default()
call_default ==
    /\ param' = MotionParam_default
    /\ op' = "default"
    /\ clamp_frame

\* param.set_speed(x)
call_set_speed ==
    /\ \E x \in SetterInputs : param' = set_speed(param, x)
    /\ op' = "set_speed"
    /\ clamp_frame

\* param.set_accel(x)
call_set_accel ==
    /\ \E x \in SetterInputs : param' = set_accel(param, x)
    /\ op' = "set_accel"
    /\ clamp_frame

\* param.set_blend_linear(x)
call_set_blend_linear ==
    /\ \E x \in SetterInputs : param' = set_blend_linear(param, x)
    /\ op' = "set_blend_linear"
    /\ clamp_frame

\* param.set_blend_angular(x)
call_set_blend_angular ==
    /\ \E x \in SetterInputs : param' = set_blend_angular(param, x)
    /\ op' = "set_blend_angular"
    /\ clamp_frame

\* param.set_tcp_speed_linear(x)
call_set_tcp_speed_linear ==
    /\ \E x \in SetterInputs : param' = set_tcp_speed_linear(param, x)
    /\ op' = "set_tcp_speed_linear"
    /\ clamp_frame

\* param.set_tcp_speed_angular(x)
call_set_tcp_speed_angular ==
    /\ \E x \in SetterInputs : param' = set_tcp_speed_angular(param, x)
    /\ op' = "set_tcp_speed_angular"
    /\ clamp_frame

\* #[derive(Deserialize)] on MotionParam: the derived impl fills the six
\* fields from the serialized numbers; no constructor and no clamp runs.
deserialize ==
    /\ \E a, b, c, d, e, f \in SerializedInputs : param' = MotionParam(a, b, c, d, e, f)
    /\ op' = "deserialize"
    /\ clamp_frame

----------------------------------------------------------------------------
(* ParamContext (src/robot/motion_param.rs) over the machine's ParamStack *)

SetParameter(p) == [inst |-> "Execute", cmd |-> "SetParameter", param |-> p]

\* the two parameter sets of examples/robot.rs
fast ==
    set_blend_angular(set_blend_linear(set_accel(set_speed(
        MotionParam_default, F(100000)), F(100000)), F(100000)), F(90000))
slow ==
    set_blend_angular(set_blend_linear(set_accel(set_speed(
        MotionParam_default, F(10000)), F(10000)), F(0)), F(0))
Params == {fast, slow}

\* push_param: the default goes under the first snapshot, the snapshot is
\* pushed, then SetParameter(snapshot) is sent.
push_param(ps, p, o) ==
    LET based == IF ps = <<>> THEN <<MotionParam_default>> ELSE ps
    IN  [res |-> instruction_assert_ok(o),
         ps |-> Append(based, p),
         sent |-> <<SetParameter(p)>>]

\* pop_param: the top snapshot is popped, then SetParameter of the new top
\* (of the default when nothing is left) is sent.
pop_param(ps, o) ==
    LET popped == IF ps = <<>> THEN <<>> ELSE SubSeq(ps, 1, Len(ps) - 1)
        top == IF popped = <<>> THEN MotionParam_default ELSE popped[Len(popped)]
    IN  [res |-> instruction_assert_ok(o),
         ps |-> popped,
         sent |-> <<SetParameter(top)>>]

\* ParamContext::new
ParamContext(p) == [param |-> p]

ParamContext_enter_fn_set_only(ctx, ps, o) ==
    [res |-> instruction_assert_ok(o), ps |-> ps, sent |-> <<SetParameter(ctx.param)>>]

\* Context<T> for ParamContext, enter_fn: t.push_param(&self.param)?
ParamContext_enter_fn(ctx, ps, o) == push_param(ps, ctx.param, o)

ParamContext_exit_fn_no_pop(ctx, ps, o) ==
    [res |-> instruction_assert_ok(o), ps |-> ps,
     sent |-> <<SetParameter(IF ps = <<>> THEN MotionParam_default ELSE ps[Len(ps)])>>]

\* Context<T> for ParamContext, exit_fn: t.pop_param()?
ParamContext_exit_fn(ctx, ps, o) == pop_param(ps, o)

\* What the machine remembers of an entered ParamContext: the operation and,
\* for the record, the MotionParam sent last before its enter.
ParamEntry(ctx, before) == [kind |-> "Param", ctx |-> ctx, before |-> before]
\* ... and of a MotionContext entered next to it
MotionEntry(ctx) == [kind |-> "Motion", ctx |-> ctx, before |-> <<>>]

\* the delta of the MotionContexts entered in SpecParam
ParamSibling == MotionContext("LinearRelative", TransformPose([x |-> 1, rz |-> 180]))

\* enter(ParamContext::new(p)), as `with_param(&p)`
enter_param ==
    /\ Len(stack) < MaxParamCtx
    /\ Len(param_stack) < MaxParamStack
    /\ \E p \in Params, o \in Outcomes :
        LET r == ParamContext_enter_fn(ParamContext(p), param_stack, o)
        IN  /\ param_stack' = r.ps
            /\ stack' = stack_push(stack, r.res, ParamEntry(ParamContext(p), param_sent))
            /\ param_sent' = <<r.sent[1].param>>
            /\ sent' = r.sent
            /\ result' = r.res
            /\ given' = <<p>>
    /\ op' = "enter_param"
    /\ exited' = <<>>
    /\ UNCHANGED <<guards, wire, robot, chan, reply, param>>

\* enter(MotionContext::new(..)) with a relative delta, as `with_pose(..)`;
\* the pose of the robot plays no part in SpecParam and is not followed.
enter_motion ==
    /\ Len(stack) < MaxParamCtx
    /\ \E o \in Outcomes :
        LET r == enter_fn(ParamSibling, identity, "OK", o)
        IN  /\ stack' = stack_push(stack, r.res, MotionEntry(r.ctx))
            /\ sent' = r.sent
            /\ result' = r.res
    /\ op' = "enter_motion"
    /\ exited' = <<>>
    /\ given' = <<>>
    /\ UNCHANGED <<guards, wire, robot, param_stack, param_sent, chan, reply, param>>

\* exit() of the machine of SpecParam: the top entry is popped and its
\* exit_fn run.
exit_top ==
    LET p == stack_pop(stack)
    IN  /\ IF p.top = <<>>
           THEN /\ result' = p.res
                /\ sent' = <<>>
                /\ UNCHANGED <<param_stack, param_sent>>
           ELSE \E o \in Outcomes :
                IF p.top[1].kind = "Param"
                THEN LET r == ParamContext_exit_fn(p.top[1].ctx, param_stack, o)
                     IN  /\ param_stack' = r.ps
                         /\ param_sent' = <<r.sent[1].param>>
                         /\ sent' = r.sent
                         /\ result' = r.res
                ELSE LET r == exit_fn(p.top[1].ctx, o)
                     IN  /\ sent' = r.sent
                         /\ result' = r.res
                         /\ UNCHANGED <<param_stack, param_sent>>
        /\ stack' = p.stack
        /\ exited' = p.top
        /\ op' = "exit"
        /\ given' = <<>>
        /\ UNCHANGED <<guards, wire, robot, chan, reply, param>>

----------------------------------------------------------------------------
(* The sequencer of src/robot/mod.rs: sequence / with_sequence *)

\* the RobotCommands sequences are built from
Commands == {"Sleep", "SetParameter"}

\* CommandSequence: every list of at most MaxSeq commands
CommandSequences == UNION {[1..n -> Commands] : n \in 0..MaxSeq}

\* the round trip of enqueue(robot_command)
Enqueue(robot_command, outcome) ==
    [inst |-> "Enqueue", cmd |-> robot_command, outcome |-> outcome, by |-> 0]

RECURSIVE enqueue_all_ignoring(_, _, _)
enqueue_all_ignoring(command_sequence, os, k) ==
    IF k > Len(command_sequence)
    THEN [res |-> "Ok", sent |-> <<>>]
    ELSE LET rest == enqueue_all_ignoring(command_sequence, os, k + 1)
         IN  [res |-> rest.res,
              sent |-> <<Enqueue(command_sequence[k], os[k])>> \o rest.sent]

RECURSIVE enqueue_all_resending(_, _, _)
enqueue_all_resending(command_sequence, os, k) ==
    IF k > Len(command_sequence)
    THEN [res |-> "Ok", sent |-> <<>>]
    ELSE LET r == instruction_assert_ok(os[k])
             trip == Enqueue(command_sequence[k], os[k])
             rest == enqueue_all_resending(command_sequence, os, k + 1)
         IN  IF r # "Ok"
             THEN [res |-> rest.res,
                   sent |-> <<trip, Enqueue(command_sequence[k], "OK")>> \o rest.sent]
             ELSE [res |-> rest.res, sent |-> <<trip>> \o rest.sent]

\* `for robot_command in command_sequence.into_iter() { self.enqueue(..)?; }`
\* from command k on; os[k] is the outcome of round trip k. The `?` leaves
\* the loop on the first enqueue that is not Ok.
RECURSIVE enqueue_all(_, _, _)
enqueue_all(command_sequence, os, k) ==
    IF k > Len(command_sequence)
    THEN [res |-> "Ok", sent |-> <<>>]
    ELSE LET r == instruction_assert_ok(os[k])
             trip == Enqueue(command_sequence[k], os[k])
         IN  IF r # "Ok"
             THEN [res |-> r, sent |-> <<trip>>]
             ELSE LET rest == enqueue_all(command_sequence, os, k + 1)
                  IN  [res |-> rest.res, sent |-> <<trip>> \o rest.sent]

sequence_fn_clearing(command_sequence, os) ==
    LET n == Len(command_sequence)
        e == enqueue_all(command_sequence, os, 1)
    IN  IF e.res # "Ok"
        THEN [res |-> e.res, sent |-> Append(e.sent, RoundTrip("Dequeue", "OK", 0))]
        ELSE [res |-> instruction_assert_ok(os[n + 1]),
              sent |-> Append(e.sent, RoundTrip("Dequeue", os[n + 1], 0))]

sequence_fn_dequeue_first(command_sequence, os) ==
    LET n == Len(command_sequence)
        e == enqueue_all(command_sequence, os, 1)
    IN  [res |-> e.res, sent |-> <<RoundTrip("Dequeue", os[n + 1], 0)>> \o e.sent]

\* IvaRobot::sequence: the loop, then self.dequeue()
sequence_fn(command_sequence, os) ==
    LET n == Len(command_sequence)
        e == enqueue_all(command_sequence, os, 1)
    IN  IF e.res # "Ok" THEN e
        ELSE [res |-> instruction_assert_ok(os[n + 1]),
              sent |-> Append(e.sent, RoundTrip("Dequeue", os[n + 1], 0))]

with_sequence_fn_guard_early(command_sequence, os) ==
    LET n == Len(command_sequence)
        e == enqueue_all(command_sequence, os, 1)
    IN  IF e.res # "Ok" THEN [res |-> e.res, sent |-> e.sent, guard |-> FALSE]
        ELSE [res |-> instruction_assert_ok(os[n + 1]),
              sent |-> Append(e.sent, RoundTrip("DequeuePush", os[n + 1], 0)),
              guard |-> TRUE]

\* IvaRobot::with_sequence: the loop, then self.with_dequeue(), which sends
\* dequeue_push and builds the guard only after `instruction_assert_ok(..)?`.
with_sequence_fn(command_sequence, os) ==
    LET n == Len(command_sequence)
        e == enqueue_all(command_sequence, os, 1)
    IN  IF e.res # "Ok" THEN [res |-> e.res, sent |-> e.sent, guard |-> FALSE]
        ELSE [res |-> instruction_assert_ok(os[n + 1]),
              sent |-> Append(e.sent, RoundTrip("DequeuePush", os[n + 1], 0)),
              guard |-> instruction_assert_ok(os[n + 1]) = "Ok"]

\* The outcomes of the round trips of one call on a sequence of n commands;
\* the round trips after the first failure never happen and their outcomes
\* are not told apart.
OutcomeRuns(n) ==
    {os \in [1..(n + 1) -> Outcomes] :
        \A k \in 2..(n + 1) : os[k - 1] # "OK" => os[k] = "OK"}

\* Room on the wire of SpecSeq for n more round trips besides the Pop every
\* live guard still owes.
SeqRoom(n) == Len(wire) + Len(guards) + n <= MaxSeqWire

seq_frame == UNCHANGED <<stack, robot, exited, param_stack, param_sent, chan, reply, param>>

\* bot.sequence(command_sequence)
sequence ==
    /\ \E command_sequence \in CommandSequences :
        /\ SeqRoom(Len(command_sequence) + 1)
        /\ \E os \in OutcomeRuns(Len(command_sequence)) :
            LET r == sequence_fn(command_sequence, os)
            IN  /\ wire' = wire \o r.sent
                /\ sent' = r.sent
                /\ result' = r.res
        /\ given' = command_sequence
    /\ op' = "sequence"
    /\ UNCHANGED guards
    /\ seq_frame

\* bot.with_sequence(command_sequence)
with_sequence ==
    /\ Len(guards) < MaxGuards
    /\ \E command_sequence \in CommandSequences :
        /\ SeqRoom(Len(command_sequence) + 2)
        /\ \E os \in OutcomeRuns(Len(command_sequence)) :
            LET r == with_sequence_fn(command_sequence, os)
            IN  /\ wire' = wire \o r.sent
                /\ sent' = r.sent
                /\ result' = r.res
                /\ guards' = IF r.guard THEN Append(guards, Len(wire) + Len(r.sent))
                             ELSE guards
        /\ given' = command_sequence
    /\ op' = "with_sequence"
    /\ seq_frame

\* the drop of the innermost guard, in SpecSeq
seq_guard_drop ==
    /\ guards # <<>>
    /\ \E o \in Outcomes :
        LET i == droppable(guards)
        IN  /\ wire' = Append(wire, RoundTrip("Pop", o, guards[i]))
            /\ sent' = <<RoundTrip("Pop", o, guards[i])>>
            /\ result' = context_drop(o)
            /\ guards' = guard_consumed(guards, i, o)
    /\ op' = "drop"
    /\ given' = <<>>
    /\ seq_frame

----------------------------------------------------------------------------
(* The remote queue the sequencer fills: what the round trips on the wire  *)
(* leave on the remote side                                                *)

\* the remote side before anything was sent: nothing queued, nothing run
remote_init == [queue |-> <<>>, batch |-> <<>>]

\* The remote states one round trip can leave. An acknowledged Enqueue puts
\* its command at the end of the queue; an acknowledged Dequeue (or its push
\* variant) runs the whole queue in order, `batch`, and leaves it empty.
\* When the reply is not OK or the socket failed, the client cannot tell
\* whether the remote side acted. Every other instruction leaves the queue.
remote_trip(r, trip) ==
    LET acted ==
            CASE trip.inst = "Enqueue" -> [r EXCEPT !.queue = Append(@, trip.cmd)]
              [] trip.inst \in {"Dequeue", "DequeuePush"} ->
                    [queue |-> <<>>, batch |-> r.queue]
              [] OTHER -> r
    IN  IF trip.outcome = "OK" THEN {acted} ELSE {r, acted}

\* the remote states the round trips of w can leave, from the first on
RECURSIVE remote_after(_)
remote_after(w) ==
    IF w = <<>> THEN {remote_init}
    ELSE UNION {remote_trip(r, w[Len(w)]) :
                    r \in remote_after(SubSeq(w, 1, Len(w) - 1))}

----------------------------------------------------------------------------
(* The plain commands of the machine next to its contexts: what each sends *)
(* and what it leaves of the ParamStack ps (src/robot/mod.rs)              *)

machine_set_param_pushing(ps, motion_param, o) == push_param(ps, motion_param, o)

\* IvaRobot::set_param: self.execute(RobotCommand::SetParameter(motion_param))
machine_set_param(ps, motion_param, o) ==
    [res |-> instruction_assert_ok(o), ps |-> ps, sent |-> <<SetParameter(motion_param)>>]

\* IvaRobot::sleep: self.execute(RobotCommand::Sleep { second })
machine_sleep(ps, o) ==
    [res |-> instruction_assert_ok(o), ps |-> ps,
     sent |-> <<[inst |-> "Execute", cmd |-> "Sleep"]>>]

\* IvaRobot::get_current_transform / get_current_joint: one Get, whose reply
\* is decoded
machine_get(ps, kind, o) ==
    [res |-> IF instruction(o).ok THEN "Ok" ELSE instruction(o).val, ps |-> ps,
     sent |-> <<Current(kind)>>]

\* IvaRobot::sequence
machine_sequence(ps, command_sequence, os) ==
    [res |-> sequence_fn(command_sequence, os).res, ps |-> ps,
     sent |-> sequence_fn(command_sequence, os).sent]

\* the CommandSequence and the MotionParam the plain commands are called with
MachineSequences == {<<"SetParameter">>}
MachineParams == {slow}

machine_frame == UNCHANGED <<guards, wire, stack, robot, exited, chan, reply, param>>

call_set_param ==
    /\ \E p \in MachineParams, o \in Outcomes :
        LET r == machine_set_param(param_stack, p, o)
        IN  /\ param_stack' = r.ps
            /\ param_sent' = <<p>>
            /\ sent' = r.sent
            /\ result' = r.res
            /\ given' = <<p>>
    /\ op' = "set_param"
    /\ machine_frame

call_sleep ==
    /\ \E o \in Outcomes :
        LET r == machine_sleep(param_stack, o)
        IN  /\ param_stack' = r.ps
            /\ sent' = r.sent
            /\ result' = r.res
    /\ op' = "sleep"
    /\ given' = <<>>
    /\ UNCHANGED param_sent
    /\ machine_frame

call_get ==
    /\ \E kind \in {"Transform", "Joint"}, o \in Outcomes :
        LET r == machine_get(param_stack, kind, o)
        IN  /\ param_stack' = r.ps
            /\ sent' = r.sent
            /\ result' = r.res
    /\ op' = "get"
    /\ given' = <<>>
    /\ UNCHANGED param_sent
    /\ machine_frame

call_sequence ==
    /\ \E command_sequence \in MachineSequences :
        \E os \in OutcomeRuns(Len(command_sequence)) :
            LET r == machine_sequence(param_stack, command_sequence, os)
            IN  /\ param_stack' = r.ps
                /\ sent' = r.sent
                /\ result' = r.res
                /\ given' = command_sequence
    /\ op' = "sequence"
    /\ UNCHANGED param_sent
    /\ machine_frame

----------------------------------------------------------------------------
(* Robot::instruction on the socket (src/robot/mod.rs, src/socket/mod.rs), *)
(* one step per call on the Stream                                         *)

\* the instructions sent and the reply texts read in SpecWire
WireInstructions == {"Execute", "Get"}
WireReplies == {"OK", "NotOK"}

\* Stream::write: the message is written and flushed, or an io::Error
Written(inst, ok) == [ev |-> "write", ok |-> ok, what |-> inst]
\* Stream::read: one line is read and returned, or an io::Error (the peer is
\* gone, or the line is no UTF-8)
Read(text, ok) == [ev |-> "read", ok |-> ok, what |-> text]

after_write_no_read(ok) == "idle"

\* Robot::instruction, `self.write(inst.to_json()?)?; self.read()`: where the
\* caller is after the write: on to the read, or back with the error.
after_write(ok) == IF ok THEN "written" ELSE "idle"

Writes(log) == {k \in 1..Len(log) : log[k].ev = "write"}

wire_frame ==
    UNCHANGED <<guards, wire, stack, robot, sent, exited,
                param_stack, param_sent, given, reply, param>>

\* The first half of Robot::instruction: self.write(..)?
instruction_write ==
    /\ chan.pc = "idle"
    /\ Cardinality(Writes(chan.log)) < MaxCalls
    /\ \E inst \in WireInstructions, ok \in BOOLEAN :
        /\ chan' = [pc |-> after_write(ok), log |-> Append(chan.log, Written(inst, ok))]
        /\ result' = IF ok THEN "Pending" ELSE "SocketError"
    /\ op' = "write"
    /\ wire_frame

\* The second half of Robot::instruction: self.read(), which blocks until a
\* line has come in or the socket fails.
instruction_read ==
    /\ chan.pc = "written"
    /\ \/ \E text \in WireReplies :
            /\ chan' = [pc |-> "idle", log |-> Append(chan.log, Read(text, TRUE))]
            /\ result' = text
       \/ /\ chan' = [pc |-> "idle", log |-> Append(chan.log, Read("", FALSE))]
          /\ result' = "SocketError"
    /\ op' = "read"
    /\ wire_frame

----------------------------------------------------------------------------
(* Decoding replies (src/robot/mod.rs, FromRobot)                          *)
(*                                                                         *)
(* A reply text is the sequence of its characters. A decoded f64 is        *)
(* [kind, m, e]: the number m * 10^e with m not a multiple of 10 (0 is     *)
(* m = 0, e = 0), an infinity of sign m, or a NaN.                         *)

\* the reply texts Stream::read hands over (trimmed of surrounding blanks)
ReplyTexts ==
    { <<"T", "r", "u", "e">>,
      <<"F", "a", "l", "s", "e">>,
      <<"t", "r", "u", "e">>,
      <<"T", "R", "U", "E">>,
      <<"1">>,
      <<"0">>,
      <<"O", "K">>,
      <<>>,
      <<"3", ".", "5">>,
      <<"+", "3", ".", "5">>,
      <<"-", "3", ".", "5">>,
      <<".", "5">>,
      <<"5", ".">>,
      <<"3", "5", "e", "-", "1">>,
      <<"1", "e", "2">>,
      <<"1", "0", "0">>,
      <<"-", "2">>,
      <<"3", ".", "5", "x">>,
      <<"3", ",", "5">>,
      <<".">>,
      <<"e", "5">>,
      <<"1", "e">>,
      <<"-", "-", "1">>,
      <<"0", "x", "1", "0">>,
      <<"i", "n", "f">>,
      <<"-", "I", "n", "f", "i", "n", "i", "t", "y">>,
      <<"N", "a", "N">>,
      <<"1", ".", "5", ".", "2">>,
      <<"T">>,
      <<"3", ".", "5", "0">>,
      <<"-", " ", "1">>,
      <<"1", " ", "0">> }

Digit == {"0", "1", "2", "3", "4", "5", "6", "7", "8", "9"}
DigitVal(c) ==
    CASE c = "0" -> 0 [] c = "1" -> 1 [] c = "2" -> 2 [] c = "3" -> 3 [] c = "4" -> 4
      [] c = "5" -> 5 [] c = "6" -> 6 [] c = "7" -> 7 [] c = "8" -> 8 [] c = "9" -> 9

\* ASCII lower case of the letters of `inf`, `infinity` and `nan`
Lower(c) ==
    CASE c = "I" -> "i" [] c = "N" -> "n" [] c = "F" -> "f" [] c = "A" -> "a"
      [] c = "T" -> "t" [] c = "Y" -> "y" [] OTHER -> c

\* the position after the digits that start at position i of t
RECURSIVE skip_digits(_, _)
skip_digits(t, i) ==
    IF i <= Len(t) /\ t[i] \in Digit THEN skip_digits(t, i + 1) ELSE i

\* the number written by the digits among t[i..j-1], acc being the number so far
RECURSIVE digits_value(_, _, _, _)
digits_value(t, i, j, acc) ==
    IF i >= j THEN acc
    ELSE digits_value(t, i + 1, j,
                      IF t[i] \in Digit THEN acc * 10 + DigitVal(t[i]) ELSE acc)

\* m * 10^e with the trailing zeros of m moved into e
RECURSIVE normal(_, _)
normal(m, e) ==
    IF m = 0 THEN [kind |-> "num", m |-> 0, e |-> 0]
    ELSE IF m % 10 = 0 THEN normal(m \div 10, e + 1)
    ELSE [kind |-> "num", m |-> m, e |-> e]

Ok(v) == [ok |-> TRUE, val |-> v]
Err(msg) == [ok |-> FALSE, val |-> msg]

\* str::parse::<f64>: Sign? ( inf | infinity | nan | Number ), the words in any
\* case; Number is digits with an optional point (a digit on at least one
\* side of it) and an optional exponent `e Sign? Digit+`; nothing before or
\* after it.
parse_f64(t) ==
    LET signed == t # <<>> /\ t[1] \in {"+", "-"}
        neg == t # <<>> /\ t[1] = "-"
        s0 == IF signed THEN 2 ELSE 1
        word == [k \in 1..(Len(t) - s0 + 1) |-> Lower(t[s0 + k - 1])]
        i1 == skip_digits(t, s0)
        point == i1 <= Len(t) /\ t[i1] = "."
        f0 == IF point THEN i1 + 1 ELSE i1
        f1 == IF point THEN skip_digits(t, f0) ELSE i1
        ndigits == (i1 - s0) + (f1 - f0)
        exponent == f1 <= Len(t) /\ t[f1] \in {"e", "E"}
        esigned == exponent /\ f1 + 1 <= Len(t) /\ t[f1 + 1] \in {"+", "-"}
        eneg == esigned /\ t[f1 + 1] = "-"
        e0 == IF ~exponent THEN f1 ELSE IF esigned THEN f1 + 2 ELSE f1 + 1
        e1 == IF exponent THEN skip_digits(t, e0) ELSE f1
        mant == digits_value(t, s0, f1, 0)
        ex == digits_value(t, e0, e1, 0)
    IN  IF t = <<>> THEN Err("cannot parse float from empty string")
        ELSE IF word \in {<<"i", "n", "f">>, <<"i", "n", "f", "i", "n", "i", "t", "y">>}
        THEN Ok([kind |-> "inf", m |-> IF neg THEN -1 ELSE 1, e |-> 0])
        ELSE IF word = <<"n", "a", "n">>
        THEN Ok([kind |-> "nan", m |-> 0, e |-> 0])
        ELSE IF ndigits = 0 \/ (exponent /\ e1 = e0) \/ e1 # Len(t) + 1
        THEN Err("invalid float literal")
        ELSE Ok(normal(IF neg THEN -mant ELSE mant,
                       (IF eneg THEN -ex ELSE ex) - (f1 - f0)))

\* str::parse::<i64>: Sign? Digit+ and nothing else
parse_i64(t) ==
    LET signed == t # <<>> /\ t[1] \in {"+", "-"}
        neg == t # <<>> /\ t[1] = "-"
        s0 == IF signed THEN 2 ELSE 1
        i1 == skip_digits(t, s0)
    IN  IF t = <<>> THEN Err("cannot parse integer from empty string")
        ELSE IF i1 = s0 \/ i1 # Len(t) + 1 THEN Err("invalid digit found in string")
        ELSE Ok(IF neg THEN -digits_value(t, s0, i1, 0) ELSE digits_value(t, s0, i1, 0))

\* FromRobot for f64
from_robot_f64(res) == parse_f64(res)
\* FromRobot for i64
from_robot_i64(res) == parse_i64(res)

from_robot_bool_any_case(res) ==
    LET low == [k \in 1..Len(res) |-> IF res[k] = "T" /\ k = 1 THEN "t"
                                       ELSE IF res[k] = "F" /\ k = 1 THEN "f" ELSE res[k]]
    IN  IF low = <<"t", "r", "u", "e">> THEN Ok(TRUE)
        ELSE IF low = <<"f", "a", "l", "s", "e">> THEN Ok(FALSE)
        ELSE Err("unexpected response")

\* FromRobot for bool
from_robot_bool(res) ==
    IF res = <<"T", "r", "u", "e">> THEN Ok(TRUE)
    ELSE IF res = <<"F", "a", "l", "s", "e">> THEN Ok(FALSE)
    ELSE Err("unexpected response")

\* FromRobot for String
from_robot_String(res) == Ok(res)

\* IvaRobot::instruction_return: the reply is read (`?` on a socket error) and
\* decoded; a decoding error becomes RobotError::ResponseError.
instruction_return(decoded, socket_ok) ==
    IF ~socket_ok THEN [ok |-> FALSE, err |-> "SocketError", val |-> <<>>]
    ELSE IF decoded.ok THEN [ok |-> TRUE, err |-> "", val |-> decoded.val]
    ELSE [ok |-> FALSE, err |-> "ResponseError", val |-> <<>>]

codec_frame ==
    UNCHANGED <<guards, wire, stack, robot, sent, exited,
                param_stack, param_sent, given, chan, param>>

\* io_get: instruction_return::<bool>
io_get ==
    /\ \E res \in ReplyTexts, socket_ok \in BOOLEAN :
        /\ (~socket_ok => res = <<>>)
        /\ reply' = res
        /\ result' = instruction_return(from_robot_bool(res), socket_ok)
    /\ op' = "io_get"
    /\ codec_frame

\* gripper_get: instruction_return::<f64>
gripper_get ==
    /\ \E res \in ReplyTexts, socket_ok \in BOOLEAN :
        /\ (~socket_ok => res = <<>>)
        /\ reply' = res
        /\ result' = instruction_return(from_robot_f64(res), socket_ok)
    /\ op' = "gripper_get"
    /\ codec_frame

\* get_data::<i64>
get_data_i64 ==
    /\ \E res \in ReplyTexts, socket_ok \in BOOLEAN :
        /\ (~socket_ok => res = <<>>)
        /\ reply' = res
        /\ result' = instruction_return(from_robot_i64(res), socket_ok)
    /\ op' = "get_data_i64"
    /\ codec_frame

\* get_data::<String>
get_data_String ==
    /\ \E res \in ReplyTexts, socket_ok \in BOOLEAN :
        /\ (~socket_ok => res = <<>>)
        /\ reply' = res
        /\ result' = instruction_return(from_robot_String(res), socket_ok)
    /\ op' = "get_data_String"
    /\ codec_frame

----------------------------------------------------------------------------
(* Encoding instructions (src/iva/mod.rs, Iva::tokens) and sending them    *)
(* (src/robot/mod.rs, Robot::instruction)                                  *)
(*                                                                         *)
(* A wire message is the sequence of its tokens. A token is a String: a     *)
(* text (unit "str"), or a number formatted to a width and a precision,    *)
(* where [width, prec, x, unit] stands for format!("{:width.prec}", x)     *)
(* with x converted to unit. The formatting of an f64 has a text for every *)
(* value, NaN included.                                                    *)

\* a &str made a String
Str(s) == [unit |-> "str", width |-> 0, prec |-> 0, x |-> F(0), text |-> s]

Formatted(width, prec, x, unit) ==
    [unit |-> unit, width |-> width, prec |-> prec, x |-> x, text |-> ""]

\* u8::to_string
u8_to_string(port) == Formatted(0, 0, F(port * 1000), "u8")

IsToken(t) ==
    /\ DOMAIN t = {"unit", "width", "prec", "x", "text"}
    /\ t.width \in Nat /\ t.prec \in Nat
    /\ t.text \in STRING
    /\ DOMAIN t.x = {"nan", "v"}

\* a message that is not one: the encoding has failed
NoTokens == <<>>

\* the values of the enums of src/iva/mod.rs
RobotCommand_Motion(motion_type, pose) ==
    [tag |-> "Motion", motion_type |-> motion_type, pose |-> pose]
RobotCommand_Param(p) == [tag |-> "Param", param |-> p]
RobotCommand_Sync == [tag |-> "Sync"]
RobotCommand_Sleep(second) == [tag |-> "Sleep", second |-> second]

GripperCommand_Activate == [tag |-> "Activate"]
GripperCommand_Get == [tag |-> "Get"]
GripperCommand_Set(s) == [tag |-> "Set", label |-> s]

IOType_Input == [tag |-> "Input"]
IOType_Output(state) == [tag |-> "Output", state |-> state]

Instruction_Execute(robot_command) == [tag |-> "Execute", robot_command |-> robot_command]
Instruction_Enqueue(robot_command) == [tag |-> "Enqueue", robot_command |-> robot_command]
Instruction_Dequeue == [tag |-> "Dequeue"]
Instruction_Gripper(gripper_command) == [tag |-> "Gripper", gripper_command |-> gripper_command]
Instruction_Digital(io_source, port, io_type) ==
    [tag |-> "Digital", io_source |-> io_source, port |-> port, io_type |-> io_type]
Instruction_Current(pose_type) == [tag |-> "Current", pose_type |-> pose_type]
Instruction_Custom(s) == [tag |-> "Custom", s |-> s]

\* The well-formed instructions the exploration encodes: every variant of
\* every enum, the numbers at both ends of their types.
EncodedPoses == {TransformPose([x |-> 1, rz |-> 180]), JointPose(<<1, 0>>)}
EncodedSeconds == {F(1000), F(-500), NaN}
EncodedRobotCommands ==
    {RobotCommand_Motion(m, p) :
        m \in {"Linear", "LinearRelative", "Joint", "JointRelative"}, p \in EncodedPoses}
    \cup {RobotCommand_Param(p) : p \in {MotionParam_default, slow}}
    \cup {RobotCommand_Sync}
    \cup {RobotCommand_Sleep(s) : s \in EncodedSeconds}
EncodedInstructions ==
    {Instruction_Execute(c) : c \in EncodedRobotCommands}
    \cup {Instruction_Enqueue(c) : c \in EncodedRobotCommands}
    \cup {Instruction_Dequeue}
    \cup {Instruction_Gripper(g) :
            g \in {GripperCommand_Activate, GripperCommand_Get,
                   GripperCommand_Set("open"), GripperCommand_Set("")}}
    \cup {Instruction_Digital(s, port, t) :
            s \in {"Beckhoff", "Wrist"}, port \in {0, 255},
            t \in {IOType_Input, IOType_Output("High"), IOType_Output("Low")}}
    \cup {Instruction_Current(t) : t \in {"Frame", "Joint"}}
    \cup {Instruction_Custom(s) : s \in {<<>>, <<"foo">>, <<"foo", "">>}}

\* Iva for MotionType
MotionType_tokens(motion_type) ==
    CASE motion_type = "Linear" -> <<Str("L")>>
      [] motion_type = "LinearRelative" -> <<Str("LR")>>
      [] motion_type = "Joint" -> <<Str("J")>>
      [] motion_type = "JointRelative" -> <<Str("JR")>>

\* the tokens of a JointCoord and of a Transform: one number per field, two
\* decimal places
JointCoord_tokens(joint) ==
    [k \in 1..Len(joint) |-> Formatted(0, 2, F(joint[k] * 1000), "deg")]
Transform_tokens(transform) ==
    <<Formatted(0, 2, F(transform.x * 1000), "mm"),
      Formatted(0, 2, F(transform.rz * 1000), "deg")>>

\* Iva for Pose
Pose_tokens(pose) ==
    CASE pose.kind = "Joint" -> <<Str("JOINT")>> \o JointCoord_tokens(pose.v)
      [] pose.kind = "Transform" -> <<Str("TRANSFORM")>> \o Transform_tokens(pose.v)

\* Iva for MotionParam: the six fields in SI units, `{:8.5}`
MotionParam_tokens(p) ==
    <<Formatted(8, 5, p.speed, "1"),
      Formatted(8, 5, p.accel, "1"),
      Formatted(8, 5, p.blend_linear, "m"),
      Formatted(8, 5, p.blend_angular, "rad"),
      Formatted(8, 5, p.tcp_speed_linear, "m"),
      Formatted(8, 5, p.tcp_speed_angular, "rad")>>

\* Iva for RobotCommand
RobotCommand_tokens(robot_command) ==
    CASE robot_command.tag = "Motion" ->
            <<Str("MOTION")>> \o MotionType_tokens(robot_command.motion_type)
                         \o Pose_tokens(robot_command.pose)
      [] robot_command.tag = "Param" -> <<Str("PARAM")>> \o MotionParam_tokens(robot_command.param)
      [] robot_command.tag = "Sync" -> <<Str("SYNC")>>
      [] robot_command.tag = "Sleep" ->
            <<Str("SLEEP"), Formatted(9, 3, robot_command.second, "s")>>

\* Iva for GripperCommand
GripperCommand_tokens(gripper_command) ==
    CASE gripper_command.tag = "Activate" -> <<Str("ACTIVATE")>>
      [] gripper_command.tag = "Get" -> <<Str("GET")>>
      [] gripper_command.tag = "Set" -> <<Str("SET"), Str(gripper_command.label)>>

\* Iva for IOSource
IOSource_tokens(io_source) ==
    CASE io_source = "Beckhoff" -> <<Str("BECKHOFF")>>
      [] io_source = "Wrist" -> <<Str("WRIST")>>

\* Iva for IOState
IOState_tokens(state) ==
    CASE state = "High" -> <<Str("HIGH")>>
      [] state = "Low" -> <<Str("LOW")>>

\* Iva for IOType
IOType_tokens(io_type) ==
    CASE io_type.tag = "Input" -> <<Str("INPUT")>>
      [] io_type.tag = "Output" -> <<Str("OUTPUT")>> \o IOState_tokens(io_type.state)

\* Iva for PoseType
PoseType_tokens(pose_type) ==
    CASE pose_type = "Frame" -> <<Str("FRAME")>>
      [] pose_type = "Joint" -> <<Str("JOINT")>>

Instruction_tokens_no_custom(inst) ==
    CASE inst.tag = "Execute" -> <<Str("EXECUTE")>> \o RobotCommand_tokens(inst.robot_command)
      [] inst.tag = "Enqueue" -> <<Str("ENQUEUE")>> \o RobotCommand_tokens(inst.robot_command)
      [] inst.tag = "Dequeue" -> <<Str("DEQUEUE")>>
      [] inst.tag = "Gripper" -> <<Str("GRIPPER")>> \o GripperCommand_tokens(inst.gripper_command)
      [] inst.tag = "Digital" ->
            <<Str("DIGITAL")>> \o IOSource_tokens(inst.io_source)
                          \o <<u8_to_string(inst.port)>>
                          \o IOType_tokens(inst.io_type)
      [] inst.tag = "Current" -> <<Str("CURRENT")>> \o PoseType_tokens(inst.pose_type)
      [] OTHER -> NoTokens

\* Iva for Instruction: the discriminator, then the tokens of the children
Instruction_tokens(inst) ==
    CASE inst.tag = "Execute" -> <<Str("EXECUTE")>> \o RobotCommand_tokens(inst.robot_command)
      [] inst.tag = "Enqueue" -> <<Str("ENQUEUE")>> \o RobotCommand_tokens(inst.robot_command)
      [] inst.tag = "Dequeue" -> <<Str("DEQUEUE")>>
      [] inst.tag = "Gripper" -> <<Str("GRIPPER")>> \o GripperCommand_tokens(inst.gripper_command)
      [] inst.tag = "Digital" ->
            <<Str("DIGITAL")>> \o IOSource_tokens(inst.io_source)
                          \o <<u8_to_string(inst.port)>>
                          \o IOType_tokens(inst.io_type)
      [] inst.tag = "Current" -> <<Str("CURRENT")>> \o PoseType_tokens(inst.pose_type)
      [] inst.tag = "Custom" -> <<Str("CUSTOM")>> \o [k \in 1..Len(inst.s) |-> Str(inst.s[k])]

\* Instruction::to_json: the instruction as one tagged object with the same
\* node tree; it has a text for every instruction.
to_json(inst) == Ok([json |-> inst])

\* Robot::instruction, `self.write(inst.to_json()?)?; self.read()`: each `?`
\* hands its error to the caller. `log` is what happened on the socket.
Robot_instruction(inst, write_ok, read_ok, text) ==
    LET json == to_json(inst)
    IN  IF ~json.ok
        THEN [ok |-> FALSE, err |-> "JsonSer", val |-> <<>>, log |-> <<>>]
        ELSE IF ~write_ok
        THEN [ok |-> FALSE, err |-> "SocketError", val |-> <<>>,
              log |-> <<Written(json.val, FALSE)>>]
        ELSE IF ~read_ok
        THEN [ok |-> FALSE, err |-> "SocketError", val |-> <<>>,
              log |-> <<Written(json.val, TRUE), Read("", FALSE)>>]
        ELSE [ok |-> TRUE, err |-> "", val |-> text,
              log |-> <<Written(json.val, TRUE), Read(text, TRUE)>>]

encode_frame ==
    UNCHANGED <<guards, wire, stack, robot, exited,
                param_stack, param_sent, reply, param>>

\* A caller encodes an instruction.
tokens ==
    /\ \E inst \in EncodedInstructions :
        /\ given' = inst
        /\ sent' = Instruction_tokens(inst)
    /\ result' = "None"
    /\ op' = "tokens"
    /\ chan' = [pc |-> "idle", log |-> <<>>]
    /\ encode_frame

\* A caller sends an instruction: Robot::instruction as a whole.
instruction_encoded ==
    /\ \E inst \in EncodedInstructions, write_ok \in BOOLEAN, read_ok \in BOOLEAN,
          text \in WireReplies :
        /\ (~write_ok => read_ok)
        /\ (~(write_ok /\ read_ok) => text = "NotOK")
        /\ LET r == Robot_instruction(inst, write_ok, read_ok, text)
           IN  /\ given' = inst
               /\ chan' = [pc |-> "idle", log |-> r.log]
               /\ result' = [ok |-> r.ok, err |-> r.err, val |-> r.val]
    /\ sent' = <<>>
    /\ op' = "instruction"
    /\ encode_frame

----------------------------------------------------------------------------
(* Decoding pose replies (src/geometry/transform.rs, src/geometry/joint.rs) *)
(*                                                                         *)
(* A decoded coordinate is [unit, kind, m, e]: the f64 of kind, m and e as *)
(* parse_f64 gives it, in unit.                                            *)

\* Replies to Current(Frame) that are a key:value structure with numbers for
\* values, each with the keys it holds
TransformReplies ==
    { [text |-> <<"{", "r", "x", ":", "1", ",", "r", "y", ":", "2", ",", "r", "z", ":", "3", ",", "x", ":", "4", ",", "y", ":", "5", ",", "z", ":", "6", "}">>,
       keys |-> {<<"r", "x">>, <<"r", "y">>, <<"r", "z">>, <<"x">>, <<"y">>, <<"z">>}],
      [text |-> <<"{", "r", "x", ":", "1", ",", "x", ":", "4", "}">>,
       keys |-> {<<"r", "x">>, <<"x">>}],
      [text |-> <<"{", "r", "x", ":", "1", ",", "f", "o", "o", ":", "9", ",", "x", ":", "4", "}">>,
       keys |-> {<<"r", "x">>, <<"f", "o", "o">>, <<"x">>}],
      [text |-> <<"{", "a", "r", "x", ":", "5", ",", "x", ":", "1", "}">>,
       keys |-> {<<"a", "r", "x">>, <<"x">>}],
      [text |-> <<"{", "x", ":", "4", ",", "y", ":", "5", "}">>,
       keys |-> {<<"x">>, <<"y">>}],
      [text |-> <<"{", "x", ":", "4", ",", "r", "z", ":", "3", "}">>,
       keys |-> {<<"x">>, <<"r", "z">>}],
      [text |-> <<"{", " ", "r", "x", ":", " ", "1", ".", "5", ",", " ", "x", ":", " ", "-", "2", " ", "}">>,
       keys |-> {<<"r", "x">>, <<"x">>}],
      [text |-> <<"{", "}">>,
       keys |-> {}] }

\* Replies to Current(Joint) that are a list of numbers, each with the number
\* of values it holds
JointReplies ==
    { [text |-> <<"[", "1", ",", "2", ",", "3", ",", "4", ",", "5", ",", "6", "]">>, values |-> 6],
      [text |-> <<"[", "1", ",", "2", "]">>, values |-> 2],
      [text |-> <<"[", "1", ",", "2", ",", "3", ",", "4", ",", "5", ",", "6", ",", "7", "]">>, values |-> 7],
      [text |-> <<"[", " ", "0", ".", "5", ",", " ", "-", "1", " ", "]">>, values |-> 2],
      [text |-> <<"[", "]">>, values |-> 0],
      [text |-> <<"j", ":", "[", "1", ",", "2", "]">>, values |-> 2] }

\* Replies that are neither: no key:value structure or list, or values that
\* are not numbers
MalformedReplies ==
    { <<"{", "r", "x", ":", "a", ",", "x", ":", "b", "}">>,
      <<"{", "r", "x", ":", "1", ",", "x", "}">>,
      <<"g", "a", "r", "b", "a", "g", "e">>,
      <<"r", "x", "=", "1", ";", "x", "=", "4">>,
      <<"[", "1", ",", "a", ",", "3", "]">>,
      <<"1", ",", "2", ",", "3">>,
      <<"[", "1", ";", "2", "]">> }

PoseReplyTexts ==
    {r.text : r \in TransformReplies} \cup {r.text : r \in JointReplies}
    \cup MalformedReplies \cup ReplyTexts

\* Iterator::skip_while(|&c| c != ch)
RECURSIVE skip_while_not(_, _)
skip_while_not(t, ch) ==
    IF t = <<>> \/ t[1] = ch THEN t ELSE skip_while_not(Tail(t), ch)

\* Iterator::take_while(|&c| c != ch)
RECURSIVE take_while_not(_, _)
take_while_not(t, ch) ==
    IF t = <<>> \/ t[1] = ch THEN <<>> ELSE <<t[1]>> \o take_while_not(Tail(t), ch)

\* str::replace(&[..], ""): the characters of chars taken out
replace(t, chars) == SelectSeq(t, LAMBDA c : c \notin chars)

\* str::split(sep): the pieces between the separators, one more than there
\* are separators (the empty text gives one empty piece)
RECURSIVE split(_, _)
split(t, sep) ==
    LET piece == take_while_not(t, sep)
    IN  IF Len(piece) = Len(t) THEN <<t>>
        ELSE <<piece>> \o split(SubSeq(t, Len(piece) + 2, Len(t)), sep)

\* str::contains(ch)
contains(t, ch) == \E k \in 1..Len(t) : t[k] = ch

\* f64::default()
f64_default == [unit |-> "", kind |-> "num", m |-> 0, e |-> 0]

\* crate::geometry::rad_to_deg
rad_to_deg(v) == [unit |-> "deg of rad", kind |-> v.kind, m |-> v.m, e |-> v.e]

\* `v * 1000.0`
times_1000(v) ==
    IF v.kind = "num"
    THEN [unit |-> "mm", kind |-> "num", m |-> normal(v.m, v.e + 3).m, e |-> normal(v.m, v.e + 3).e]
    ELSE [unit |-> "mm", kind |-> v.kind, m |-> v.m, e |-> v.e]

\* the closure of filter_map in From<String> for Transform: <<>> is None
term_entry(term) ==
    LET t == split(term, ":")
        k == t[1]
        v == IF Len(t) < 2 THEN Err("None") ELSE parse_f64(t[2])
    IN  IF ~v.ok THEN <<>>
        ELSE <<[k |-> k, v |-> IF contains(k, "r") THEN rad_to_deg(v.val) ELSE times_1000(v.val)]>>

RECURSIVE filter_map_terms(_)
filter_map_terms(terms) ==
    IF terms = <<>> THEN <<>>
    ELSE term_entry(Head(terms)) \o filter_map_terms(Tail(terms))

\* HashMap::get(key).cloned().unwrap_or_default() on the map collected from
\* the entries, where a later entry of a key replaces an earlier one
get_or_default(entries, key) ==
    LET hits == {i \in 1..Len(entries) : entries[i].k = key}
    IN  IF hits = {} THEN f64_default
        ELSE entries[CHOOSE i \in hits : \A j \in hits : j <= i].v

\* From<HashMap<String, f64>> for Transform
Transform_from_HashMap(value) ==
    [x |-> get_or_default(value, <<"x">>),
     y |-> get_or_default(value, <<"y">>),
     z |-> get_or_default(value, <<"z">>),
     rx |-> get_or_default(value, <<"r", "x">>),
     ry |-> get_or_default(value, <<"r", "y">>),
     rz |-> get_or_default(value, <<"r", "z">>)]

\* From<String> for Transform
Transform_from_String(value) ==
    Transform_from_HashMap(filter_map_terms(split(
        replace(take_while_not(skip_while_not(value, "r"), "}"), {"{", "}", " "}),
        ",")))

\* FromRobot for Transform
from_robot_Transform(res) == Ok(Transform_from_String(res))

\* the closure of filter_map in From<String> for JointCoord, then rad_to_deg
RECURSIVE filter_map_values(_)
filter_map_values(pieces) ==
    IF pieces = <<>> THEN <<>>
    ELSE (IF parse_f64(Head(pieces)).ok
          THEN <<rad_to_deg(parse_f64(Head(pieces)).val)>> ELSE <<>>)
         \o filter_map_values(Tail(pieces))

\* From<Vec<f64>> for JointCoord
JointCoord_from_Vec(value) ==
    [k \in 1..6 |-> IF k <= Len(value) THEN value[k] ELSE f64_default]

\* From<String> for JointCoord
JointCoord_from_String(value) ==
    JointCoord_from_Vec(filter_map_values(split(
        replace(take_while_not(skip_while_not(value, "["), "]"), {"[", "]", " "}),
        ",")))

\* FromRobot for JointCoord
from_robot_JointCoord(res) == Ok(JointCoord_from_String(res))

\* get_current_transform: instruction_return::<Transform>
get_current_transform ==
    /\ \E res \in PoseReplyTexts, socket_ok \in BOOLEAN :
        /\ (~socket_ok => res = <<>>)
        /\ reply' = res
        /\ result' = instruction_return(from_robot_Transform(res), socket_ok)
    /\ op' = "get_current_transform"
    /\ codec_frame

\* get_current_joint: instruction_return::<JointCoord>
get_current_joint ==
    /\ \E res \in PoseReplyTexts, socket_ok \in BOOLEAN :
        /\ (~socket_ok => res = <<>>)
        /\ reply' = res
        /\ result' = instruction_return(from_robot_JointCoord(res), socket_ok)
    /\ op' = "get_current_joint"
    /\ codec_frame

----------------------------------------------------------------------------
(* CommandSequence, the builder (src/robot/command_sequence.rs)            *)

\* the poses and the seconds the builder is called with
BuilderPose == TransformPose([x |-> 1, rz |-> 180])
BuilderJoint == JointPose(<<1, 0>>)
BuilderSecond == F(1000)

BuilderCommands ==
    {RobotCommand_Motion("Linear", BuilderPose),
     RobotCommand_Motion("LinearRelative", BuilderPose),
     RobotCommand_Motion("Joint", BuilderJoint),
     RobotCommand_Motion("JointRelative", BuilderJoint),
     RobotCommand_Sleep(BuilderSecond),
     RobotCommand_Sync,
     RobotCommand_Param(slow)}

\* what an iterator of RobotCommand can yield
BuilderItems == UNION {[1..n -> BuilderCommands] : n \in 0..MaxBuilt}

\* CommandSequence::new
CommandSequence_new == <<>>

CommandSequence_then_first(seq, robot_command) == <<robot_command>> \o seq

\* CommandSequence::then: self.seq.push(robot_command)
CommandSequence_then(seq, robot_command) == Append(seq, robot_command)

\* FromIterator for CommandSequence: Vec::from_iter(iter), which pushes the
\* items as the iterator yields them
RECURSIVE CommandSequence_from_iter(_)
CommandSequence_from_iter(iter) ==
    IF iter = <<>> THEN CommandSequence_new
    ELSE CommandSequence_then(
            CommandSequence_from_iter(SubSeq(iter, 1, Len(iter) - 1)), iter[Len(iter)])

\* Deref for CommandSequence, then Vec::iter: the items from the first on
RECURSIVE CommandSequence_iter(_)
CommandSequence_iter(seq) ==
    IF seq = <<>> THEN <<>> ELSE <<Head(seq)>> \o CommandSequence_iter(Tail(seq))

builder_frame ==
    UNCHANGED <<guards, wire, stack, robot, exited,
                param_stack, param_sent, chan, reply, param>>

\* one step of a builder chain: the command is appended to the sequence held
appended(robot_command, by) ==
    /\ Len(given) < MaxBuilt
    /\ given' = CommandSequence_then(given, robot_command)
    /\ result' = robot_command
    /\ sent' = <<>>
    /\ op' = by
    /\ builder_frame

new == 
    /\ given' = CommandSequence_new
    /\ result' = "None"
    /\ sent' = <<>>
    /\ op' = "new"
    /\ builder_frame

then == \E robot_command \in BuilderCommands : appended(robot_command, "then")

then_linear == appended(RobotCommand_Motion("Linear", BuilderPose), "then_linear")

then_linear_relative ==
    appended(RobotCommand_Motion("LinearRelative", BuilderPose), "then_linear_relative")

then_joint == appended(RobotCommand_Motion("Joint", BuilderJoint), "then_joint")

then_joint_relative ==
    appended(RobotCommand_Motion("JointRelative", BuilderJoint), "then_joint_relative")

then_sleep == appended(RobotCommand_Sleep(BuilderSecond), "then_sleep")

then_sync == appended(RobotCommand_Sync, "then_sync")

then_set_param == appended(RobotCommand_Param(slow), "then_set_param")

\* `iter.collect::<CommandSequence>()`
from_iter ==
    /\ \E iter \in BuilderItems :
        /\ given' = CommandSequence_from_iter(iter)
        /\ sent' = iter
    /\ result' = "None"
    /\ op' = "from_iter"
    /\ builder_frame

\* `command_sequence.iter()`, as the loop of sequence() walks it
iter ==
    /\ sent' = CommandSequence_iter(given)
    /\ result' = "None"
    /\ op' = "iter"
    /\ UNCHANGED given
    /\ builder_frame

----------------------------------------------------------------------------
(* The logger (src/logger/mod.rs, src/logger/target.rs)                    *)

\* enum LogLevel
LogLevels == {"Off", "Error", "Warn", "Info", "Debug", "Trace"}

\* #[repr(u32)]: the discriminant each variant is declared with
LogLevel_discriminant(log_level) ==
    CASE log_level = "Off" -> 5
      [] log_level = "Error" -> 4
      [] log_level = "Warn" -> 3
      [] log_level = "Info" -> 2
      [] log_level = "Debug" -> 1
      [] log_level = "Trace" -> 0

\* the derived PartialOrd of a fieldless enum compares the discriminants
LogLevel_le(a, b) == LogLevel_discriminant(a) <= LogLevel_discriminant(b)

\* ToString for LogLevel
LogLevel_to_string(log_level) == log_level

\* the text a caller logs
LogTexts == {"a message"}

\* ConsoleTarget::new / RollingFileTarget::new: a target holds its level;
\* `out` is what it has printed or written so far
ConsoleTarget_new(log_level) == [kind |-> "console", log_level |-> log_level, out |-> <<>>]

RollingFileTarget_new(log_level) == [kind |-> "file", log_level |-> log_level, out |-> <<>>]

\* ConsoleTarget::default: Info
ConsoleTarget_default == ConsoleTarget_new("Info")

\* RollingFileTarget::default: Debug
RollingFileTarget_default == RollingFileTarget_new("Debug")

\* LoggingTarget::set_level
set_level(target, log_level) == [target EXCEPT !.log_level = log_level]

\* LoggingTarget::get_level
get_level(target) == target.log_level

\* LoggingTarget::log_message: the console prints the message, the file
\* writes it
log_message(target, msg) == [target EXCEPT !.out = Append(@, msg)]

LoggingTarget_log_strict(target, msg, log_level) ==
    IF LogLevel_discriminant(get_level(target)) < LogLevel_discriminant(log_level)
    THEN log_message(target, msg)
    ELSE target

\* LoggingTarget::log: `if self.get_level() <= log_level { log_message }`
LoggingTarget_log(target, msg, log_level) ==
    IF LogLevel_le(get_level(target), log_level)
    THEN log_message(target, msg)
    ELSE target

\* Logger::from_console_file: the console first, the file second
Logger_from_console_file(console, rolling_file) == <<console, rolling_file>>

\* Logger::default_target_with_levels: the two default targets, each set to
\* the level asked for
Logger_default_target_with_levels(console_log_level, file_log_level) ==
    Logger_from_console_file(
        set_level(ConsoleTarget_default, console_log_level),
        set_level(RollingFileTarget_default, file_log_level))

\* Logger::default_target
Logger_default_target == Logger_default_target_with_levels("Info", "Debug")

\* the message Logger::log hands to every target: "{:<5} | {}\n" of the
\* level's name and the text
Logger_format(msg, log_level) == [level |-> LogLevel_to_string(log_level), text |-> msg]

\* Logger::log: every target, in order, is offered the formatted message
Logger_log(targets, msg, log_level) ==
    [i \in 1..Len(targets) |->
        LoggingTarget_log(targets[i], Logger_format(msg, log_level), log_level)]

logger_frame ==
    UNCHANGED <<guards, wire, stack, robot, exited,
                param_stack, param_sent, chan, reply, param>>

\* a logger is made: `given` holds its targets, `sent` the messages it is
\* given from then on
made(targets, by) ==
    /\ given' = targets
    /\ sent' = <<>>
    /\ result' = "None"
    /\ op' = by
    /\ logger_frame

\* Logger::empty: no target
empty == made(<<>>, "empty")

default_target == made(Logger_default_target, "default_target")

default_target_with_levels ==
    \E console_log_level \in LogLevels, file_log_level \in LogLevels :
        made(Logger_default_target_with_levels(console_log_level, file_log_level),
             "default_target_with_levels")

\* one call of log, or of a wrapper of it, on the logger held
logged(msg, log_level, by) ==
    /\ Len(sent) < MaxLogged
    /\ given' = Logger_log(given, msg, log_level)
    /\ sent' = Append(sent, [msg |-> msg, log_level |-> log_level])
    /\ result' = "None"
    /\ op' = by
    /\ logger_frame

call_log == \E msg \in LogTexts, log_level \in LogLevels : logged(msg, log_level, "log")

error == \E msg \in LogTexts : logged(msg, "Error", "error")

warn == \E msg \in LogTexts : logged(msg, "Warn", "warn")

info == \E msg \in LogTexts : logged(msg, "Info", "info")

debug == \E msg \in LogTexts : logged(msg, "Debug", "debug")

trace == \E msg \in LogTexts : logged(msg, "Trace", "trace")

----------------------------------------------------------------------------
(* The ROS bridge (src/ros_bridge/mod.rs)                                  *)

ProcedureNames == {"iva", "home"}

\* what the websocket hands to recv_message: a message that is no text, a
\* text that is no JSON, or a JSON text whose ["values"]["success"] is the
\* boolean true, the boolean false, or anything else (Null when absent)
BinaryMessage == [kind |-> "Binary", success |-> "null"]
InvalidText == [kind |-> "Invalid", success |-> "null"]
JsonText(success) == [kind |-> "Json", success |-> success]

\* the messages a request reads before its reply: none, or one of each kind
SkippedMessages == {<<>>, <<BinaryMessage, InvalidText>>}
JsonMessages == {JsonText(success) : success \in {"true", "false", "null"}}

\* what one request can meet: the connection refused, the send failing, or
\* the messages received until the socket fails
Connections ==
    {[connect |-> FALSE, send |-> FALSE, messages |-> <<>>],
     [connect |-> TRUE, send |-> FALSE, messages |-> <<>>]}
    \cup {[connect |-> TRUE, send |-> TRUE, messages |-> skipped \o last] :
            skipped \in SkippedMessages,
            last \in {<<>>} \cup {<<m>> : m \in JsonMessages}}

\* the loop of make_request: read a message; a text that parses as JSON is
\* returned, every other message is logged and the loop reads again;
\* recv_message failing leaves through `?`
RECURSIVE recv_loop(_)
recv_loop(messages) ==
    IF messages = <<>> THEN [ok |-> FALSE, success |-> "null"]
    ELSE IF Head(messages).kind = "Json"
         THEN [ok |-> TRUE, success |-> Head(messages).success]
         ELSE recv_loop(Tail(messages))

\* RosBridge::make_request: connect_insecure()?, send_message()?, then the
\* loop
make_request(conn) ==
    IF ~conn.connect \/ ~conn.send
    THEN [ok |-> FALSE, success |-> "null"]
    ELSE recv_loop(conn.messages)

\* RosBridge::call_service: the request's error through `?`, Ok when
\* ["values"]["success"] is Bool(true), UnexpectedValue otherwise
call_service(conn) ==
    LET value == make_request(conn)
    IN IF ~value.ok THEN "WebSocketError"
       ELSE IF value.success = "true" THEN "Ok"
       ELSE "UnexpectedValue"

\* a service call as the remote side sees it, with what came of it
ServiceCall(service, procedure_name, res) ==
    [service |-> service, procedure_name |-> procedure_name, res |-> res]

\* RosBridge::start_sequence
start_sequence_fn(procedure_name, conn) ==
    LET res == call_service(conn)
    IN [res |-> res, calls |-> <<ServiceCall("/sequence/start", procedure_name, res)>>]

\* RosBridge::stop_sequence
stop_sequence_fn(conn) ==
    LET res == call_service(conn)
    IN [res |-> res, calls |-> <<ServiceCall("/sequence/stop", "", res)>>]

run_sequence_restarting(procedure_name, conns) ==
    LET first == start_sequence_fn(procedure_name, conns[1])
        stop == stop_sequence_fn(conns[2])
        second == start_sequence_fn(procedure_name, conns[3])
    IN IF first.res = "Ok" THEN first
       ELSE [res |-> second.res, calls |-> first.calls \o stop.calls \o second.calls]

\* RosBridge::run_sequence: `match self.start_sequence(..) { Err(_) => {
\* self.stop_sequence()?; self.start_sequence(..) } _ => Ok(()) }`;
\* conns[k] is what the k-th request made meets
run_sequence_fn(procedure_name, conns) ==
    LET first == start_sequence_fn(procedure_name, conns[1])
        stop == stop_sequence_fn(conns[2])
        second == start_sequence_fn(procedure_name, conns[3])
    IN IF first.res = "Ok" THEN first
       ELSE IF stop.res # "Ok"
            THEN [res |-> stop.res, calls |-> first.calls \o stop.calls]
            ELSE [res |-> second.res, calls |-> first.calls \o stop.calls \o second.calls]

bridge_frame ==
    UNCHANGED <<guards, wire, stack, robot, exited,
                param_stack, param_sent, chan, param>>

\* a call on the bridge returned: `sent` holds the service calls it made,
\* `reply` what its requests met
returned(out, name, conns, by) ==
    /\ sent' = out.calls
    /\ result' = out.res
    /\ given' = <<name>>
    /\ reply' = conns
    /\ op' = by
    /\ bridge_frame

start_sequence ==
    \E procedure_name \in ProcedureNames, conn \in Connections :
        returned(start_sequence_fn(procedure_name, conn), procedure_name,
                 <<conn>>, "start_sequence")

stop_sequence ==
    \E conn \in Connections :
        returned(stop_sequence_fn(conn), "", <<conn>>, "stop_sequence")

\* the second and third requests are made only when the one before calls
\* for them
run_sequence ==
    \E procedure_name \in ProcedureNames, c1 \in Connections :
        IF call_service(c1) = "Ok"
        THEN returned(run_sequence_fn(procedure_name, <<c1, c1, c1>>),
                      procedure_name, <<c1>>, "run_sequence")
        ELSE \E c2 \in Connections :
            IF call_service(c2) # "Ok"
            THEN returned(run_sequence_fn(procedure_name, <<c1, c2, c2>>),
                          procedure_name, <<c1, c2>>, "run_sequence")
            ELSE \E c3 \in Connections :
                returned(run_sequence_fn(procedure_name, <<c1, c2, c3>>),
                         procedure_name, <<c1, c2, c3>>, "run_sequence")

----------------------------------------------------------------------------
(* A chain of enters in one statement:                                     *)
(* `guard.with_x()?.with_y()?.with_z()?;` (src/lib.rs, src/context/mod.rs) *)

\* the pushes of a chain of n enters, from the j-th on; os[j] is the outcome
\* of the j-th push. Each `?` returns on the first enter that is not Ok.
RECURSIVE chain_enters(_, _, _)
chain_enters(n, os, j) ==
    IF j > n THEN [res |-> "Ok", sent |-> <<>>]
    ELSE LET r == instruction_assert_ok(os[j])
             trip == RoundTrip("ExecutePush", os[j], 0)
         IN  IF r # "Ok" THEN [res |-> r, sent |-> <<trip>>]
             ELSE LET rest == chain_enters(n, os, j + 1)
                  IN  [res |-> rest.res, sent |-> <<trip>> \o rest.sent]

\* the guards a chain holds as temporaries: one per acknowledged push, named
\* by the place of its push on the wire, which holds `base` round trips
chain_guards(base, pushes) ==
    LET acked == SelectSeq([j \in 1..Len(pushes) |-> [at |-> base + j, trip |-> pushes[j]]],
                           LAMBDA p : instruction_assert_ok(p.trip.outcome) = "Ok")
    IN  [j \in 1..Len(acked) |-> acked[j].at]

temporaries_dropped_forward(gs, ps) ==
    [j \in 1..Len(gs) |-> RoundTrip("Pop", ps[j], gs[j])]

\* the temporaries of a statement are dropped when the statement is left, by
\* its end or by the return of a `?`, the one created last first; each drop
\* is Drop for ContextGuard, one Pop whose outcome ps[j] is discarded
temporaries_dropped(gs, ps) ==
    [j \in 1..Len(gs) |-> RoundTrip("Pop", ps[j], gs[Len(gs) + 1 - j])]

\* the whole statement: the enters, then the drops of the temporaries
with_chain_fn(base, n, os, ps) ==
    LET e == chain_enters(n, os, 1)
    IN  [res |-> e.res,
         sent |-> e.sent \o temporaries_dropped(chain_guards(base, e.sent), ps)]

\* the outcomes of the pushes of a chain of n enters, and of the Pops of its
\* drops; `first` is the enter that fails (n + 1: none does), and the round
\* trips that never happen are not told apart
ChainRuns(n) ==
    UNION {{[os |-> [j \in 1..n |-> IF j = first THEN o ELSE "OK"],
             ps |-> [j \in 1..n |-> IF j < first THEN q[j] ELSE "OK"]] :
                o \in IF first > n THEN {"OK"} ELSE Outcomes \ {"OK"},
                q \in [1..(first - 1) -> Outcomes]} :
           first \in 1..(n + 1)}

\* a chain of n enters, on the robot or through the innermost live guard
with_chain ==
    /\ \E n \in 1..MaxChain :
        /\ \E run \in ChainRuns(n) :
            LET r == with_chain_fn(Len(wire), n, run.os, run.ps)
            IN  /\ Len(wire) + Len(guards) + Len(r.sent) <= MaxWire
                /\ wire' = wire \o r.sent
                /\ sent' = r.sent
                /\ result' = r.res
    /\ op' = "with_chain"
    /\ UNCHANGED <<guards, stack, robot, exited, aux>>

----------------------------------------------------------------------------
(* Relative Motion Contexts nested and left in one go: every round trip is *)
(* acknowledged (src/geometry/mod.rs, src/lib.rs)                          *)

\* the relative contexts a nest is built from
RelativeInputs ==
    {<<"LinearRelative", TransformPose([x |-> 1, rz |-> 0])>>,
     <<"LinearRelative", TransformPose([x |-> 1, rz |-> 180])>>,
     <<"LinearRelative", TransformPose([x |-> 0, rz |-> 180])>>,
     <<"JointRelative", JointPose(<<1, 0>>)>>,
     <<"JointRelative", JointPose(<<0, 1>>)>>}

\* enter_fn on every context of ins from the i-th on, then exit_fn on each
\* in the reverse order: what is sent, in order
RECURSIVE nested_fn(_, _)
nested_fn(ins, i) ==
    IF i > Len(ins) THEN <<>>
    ELSE LET ctx == MotionContext(ins[i][1], ins[i][2])
             entered == enter_fn(ctx, ctx.pose.v, "OK", "OK")
         IN  entered.sent \o nested_fn(ins, i + 1) \o exit_fn(entered.ctx, "OK").sent

\* the robot states the acknowledged Motions of ms can end in, from one of
\* the states of rbs
RECURSIVE robot_run(_, _)
robot_run(rbs, ms) ==
    IF ms = <<>> THEN rbs
    ELSE robot_run(UNION {robot_after(r, Head(ms).motion_type, Head(ms).pose, "OK") :
                            r \in rbs},
                   Tail(ms))

\* `machine.with_pose(..)?.with_pose(..)?;`: the contexts are entered, then
\* exited innermost first
nested ==
    /\ stack = <<>>
    /\ \E n \in 1..MaxNest :
        \E ins \in [1..n -> RelativeInputs] :
            LET ms == nested_fn(ins, 1)
            IN  /\ sent' = ms
                /\ robot' \in robot_run({robot}, ms)
                /\ given' = ins
    /\ result' = "Ok"
    /\ op' = "nested"
    /\ exited' = <<>>
    /\ UNCHANGED <<guards, wire, stack, param_stack, param_sent, chan, reply, param>>

----------------------------------------------------------------------------
(* Robot::new_inovo: the listener, the remote start, the accept            *)
(* (src/robot/mod.rs, src/socket/mod.rs)                                   *)

\* what TcpListener::bind and TcpListener::accept can come to
IoOutcomes == {"Ok", "IoError"}

\* a call on the listener, in the shape of a ServiceCall
SocketCall(call, res) == ServiceCall(call, "", res)

\* Listener::new: `TcpListener::bind(addr)?`
Listener_new(bind) == [res |-> bind, calls |-> <<SocketCall("bind", bind)>>]

\* Listener::accept: `self.tcp_listener.accept()?`
Listener_accept(accept) == [res |-> accept, calls |-> <<SocketCall("accept", accept)>>]

new_inovo_accepting_early(bind, conns, accept) ==
    LET listener == Listener_new(bind)
        stream == Listener_accept(accept)
        started == run_sequence_fn("iva", conns)
    IN  IF listener.res # "Ok" THEN [res |-> "SocketError", calls |-> listener.calls]
        ELSE IF stream.res # "Ok"
             THEN [res |-> "SocketError", calls |-> listener.calls \o stream.calls]
             ELSE [res |-> started.res,
                   calls |-> listener.calls \o stream.calls \o started.calls]

\* Robot::new_inovo: `Listener::new(port, ..)?`, then
\* `RosBridge::new(host, 1000).run_sequence("iva")?`, then
\* `listener.accept(..)?`; an io::Error comes back as SocketError, the
\* bridge's error as it is
new_inovo_fn(bind, conns, accept) ==
    LET listener == Listener_new(bind)
        started == run_sequence_fn("iva", conns)
        stream == Listener_accept(accept)
    IN  IF listener.res # "Ok" THEN [res |-> "SocketError", calls |-> listener.calls]
        ELSE IF started.res # "Ok"
             THEN [res |-> started.res, calls |-> listener.calls \o started.calls]
             ELSE [res |-> IF stream.res = "Ok" THEN "Ok" ELSE "SocketError",
                   calls |-> listener.calls \o started.calls \o stream.calls]

\* new_inovo returned: `given` holds what bind and accept came to, `reply`
\* what the requests of run_sequence met
constructed(bind, conns, met, accept) ==
    LET out == new_inovo_fn(bind, conns, accept)
    IN  /\ sent' = out.calls
        /\ result' = out.res
        /\ given' = <<bind, accept>>
        /\ reply' = met
        /\ op' = "new_inovo"
        /\ bridge_frame

\* the steps that are never reached are not told apart
new_inovo ==
    \E bind \in IoOutcomes :
        IF bind # "Ok" THEN constructed(bind, <<>>, <<>>, "Ok")
        ELSE \E c1 \in Connections :
            IF call_service(c1) = "Ok"
            THEN \E accept \in IoOutcomes : constructed(bind, <<c1, c1, c1>>, <<c1>>, accept)
            ELSE \E c2 \in Connections :
                IF call_service(c2) # "Ok"
                THEN constructed(bind, <<c1, c2, c2>>, <<c1, c2>>, "Ok")
                ELSE \E c3 \in Connections :
                    IF call_service(c3) # "Ok"
                    THEN constructed(bind, <<c1, c2, c3>>, <<c1, c2, c3>>, "Ok")
                    ELSE \E accept \in IoOutcomes :
                        constructed(bind, <<c1, c2, c3>>, <<c1, c2, c3>>, accept)

----------------------------------------------------------------------------
(* RollingFileTarget: the files of one name (src/logger/target.rs)         *)

\* The directory is a function from the indices i whose `<name>.i.log`
\* exists to the file: `born` tells the files apart by the order of their
\* creation, `data` is the lengths of the messages written to it.

\* the length of a file in bytes: `f.metadata().unwrap().len()`
RECURSIVE bytes(_)
bytes(data) == IF data = <<>> THEN 0 ELSE Head(data) + bytes(Tail(data))

file_len(file) == bytes(file.data)

\* fs::remove_file
remove_file(dir, i) == [k \in DOMAIN dir \ {i} |-> dir[k]]

\* fs::rename: the file at `to`, if there is one, is replaced
rename(dir, from, to) ==
    [k \in (DOMAIN dir \ {from}) \cup {to} |-> IF k = to THEN dir[from] ELSE dir[k]]

\* the loop of RollingFileTarget::rotate at index i, counting down:
\* `for i in (0..self.rolling_number).rev()`
RECURSIVE rotate_loop(_, _, _)
rotate_loop(dir, rolling_number, i) ==
    IF i < 0 THEN dir
    ELSE IF i \notin DOMAIN dir THEN rotate_loop(dir, rolling_number, i - 1)
    ELSE IF i = rolling_number - 1
         THEN rotate_loop(remove_file(dir, i), rolling_number, i - 1)
         ELSE rotate_loop(rename(dir, i, i + 1), rolling_number, i - 1)

\* RollingFileTarget::rotate
rotate(dir, rolling_number) == rotate_loop(dir, rolling_number, rolling_number - 1)

\* RollingFileTarget::new: the struct with `file_handle: None`, after
\* `rolling_file.rotate()`; `written` counts the messages written under the
\* name so far
RollingFileTarget_rotated(trigger_size, rolling_number, written, dir) ==
    [target |-> [trigger_size |-> trigger_size, rolling_number |-> rolling_number,
                 file_handle |-> FALSE, written |-> written],
     dir |-> rotate(dir, rolling_number)]

\* RollingFileTarget::_log with a message of msg_len bytes: the check of the
\* open file's length, then the write to the open file or to
\* `fs::File::create(self._file_path(0))`, which truncates
RollingFileTarget_log(target, dir, msg_len) ==
    LET triggered == target.file_handle /\ file_len(dir[0]) >= target.trigger_size
        rotated == IF triggered THEN rotate(dir, target.rolling_number) ELSE dir
        handle == target.file_handle /\ ~triggered
        serial == target.written + 1
        file == IF handle THEN [rotated[0] EXCEPT !.data = Append(@, msg_len)]
                ELSE [born |-> serial, data |-> <<msg_len>>]
    IN  [target |-> [target EXCEPT !.file_handle = TRUE, !.written = serial],
         dir |-> [k \in DOMAIN rotated \cup {0} |-> IF k = 0 THEN file ELSE rotated[k]]]

\* `given` holds the target, `sent` the directory
rolling_frame ==
    UNCHANGED <<guards, wire, stack, robot, exited,
                param_stack, param_sent, chan, reply, param>>

\* RollingFileTarget::new, for the first time under the name or again with
\* the same arguments when the program is started again
rolling_new ==
    /\ \E trigger_size \in 0..MaxTrigger, rolling_number \in 0..MaxRolling :
        /\ given # <<>> => /\ given[1].trigger_size = trigger_size
                           /\ given[1].rolling_number = rolling_number
        /\ LET made_ == RollingFileTarget_rotated(trigger_size, rolling_number,
                            IF given = <<>> THEN 0 ELSE given[1].written, sent)
           IN  /\ given' = <<made_.target>>
               /\ sent' = made_.dir
    /\ result' = "Ok"
    /\ op' = "rolling_new"
    /\ rolling_frame

\* LoggingTarget::log_message of the rolling file
rolling_log ==
    /\ given # <<>>
    /\ given[1].written < MaxWrites
    /\ \E msg_len \in 1..2 :
        LET logged_ == RollingFileTarget_log(given[1], sent, msg_len)
        IN  /\ given' = <<logged_.target>>
            /\ sent' = logged_.dir
    /\ result' = "Ok"
    /\ op' = "rolling_log"
    /\ rolling_frame

----------------------------------------------------------------------------
(* RosBridge::until_sequence_stop: polling the runtime state               *)
(* (src/ros_bridge/mod.rs)                                                 *)

\* what value["msg"]["state"] of a reply can be: the numbers of the four
\* states, a number of no state, a number that is no i64, and no number
RuntimeValues == {"0", "1", "2", "3", "4", "1.5", "null"}

\* what a poll meets: the request fails, or its reply holds a value
Polls == {[ok |-> FALSE, state |-> "null"]} \cup
         {[ok |-> TRUE, state |-> v] : v \in RuntimeValues}

\* RosBridge::get_runtime_state: the request's error through `?`, then the
\* match on the value
get_runtime_state(met) ==
    IF ~met.ok THEN "WebSocketError"
    ELSE CASE met.state = "0" -> "Stop"
           [] met.state = "1" -> "Running"
           [] met.state = "2" -> "Pause"
           [] met.state = "3" -> "Disabled"
           [] OTHER -> "UnexpectedValue"

until_sequence_stop_on_pause(runtime_state) ==
    IF runtime_state \in {"WebSocketError", "UnexpectedValue"} THEN runtime_state
    ELSE IF runtime_state \in {"Stop", "Pause"} THEN "Ok"
    ELSE "None"

\* one turn of the loop of RosBridge::until_sequence_stop on what
\* get_runtime_state gave: the error through `?`, `break` and Ok(()) on
\* Stop, the sleep and the next turn ("None": not returned) on any other
\* state
until_sequence_stop_fn(runtime_state) ==
    IF runtime_state \in {"WebSocketError", "UnexpectedValue"} THEN runtime_state
    ELSE IF runtime_state = "Stop" THEN "Ok"
    ELSE "None"

\* `reply` holds what the polls of the call met, `sent` what
\* get_runtime_state made of each
polling_frame ==
    UNCHANGED <<guards, wire, stack, robot, exited,
                param_stack, param_sent, given, chan, param>>

\* until_sequence_stop is called: no poll made yet
until_sequence_stop ==
    /\ op # "until_sequence_stop" \/ result # "None"
    /\ sent' = <<>>
    /\ reply' = <<>>
    /\ result' = "None"
    /\ op' = "until_sequence_stop"
    /\ polling_frame

\* the next turn of its loop
poll ==
    /\ op = "until_sequence_stop" /\ result = "None"
    /\ Len(sent) < MaxPolls
    /\ \E met \in Polls :
        LET runtime_state == get_runtime_state(met)
        IN  /\ sent' = Append(sent, runtime_state)
            /\ reply' = Append(reply, met)
            /\ result' = until_sequence_stop_fn(runtime_state)
    /\ UNCHANGED op
    /\ polling_frame

----------------------------------------------------------------------------
(* socket_test: one listener, client threads and handler threads           *)
(* (tests/socket.rs, src/socket/mod.rs)                                    *)

\* `given` holds the client threads, `reply` the handler threads in the
\* order they were spawned, `sent` the connections in the order the
\* listener got them. A connection holds the lines on their way to the
\* server (`up`) and to the client (`down`), and which ends are open.

\* a round of `client`: `client.write(..)?; client.read()?`
client_round_reading == <<"read", "write">>

client_round == <<"write", "read">>

\* a round of `handle`: `stream.read()?; stream.write(..)?`
handle_round == <<"read", "write">>

\* a thread at the start of its loop; `got` is the line it has read last
Started(name, pc, conn) ==
    [name |-> name, pc |-> pc, i |-> 0, step |-> 1, conn |-> conn, got |-> <<>>]

\* the thread after the call of its round it was at: the next call, the
\* next round, or Ok(()) after MSG_COUNT rounds
advanced(thread) ==
    IF thread.step < 2 THEN [thread EXCEPT !.step = 2]
    ELSE IF thread.i + 1 < MSG_COUNT THEN [thread EXCEPT !.i = @ + 1, !.step = 1]
    ELSE [thread EXCEPT !.pc = "done"]

\* the thread left through `?`
failed(thread) == [thread EXCEPT !.pc = "failed"]

\* a thread that has returned has dropped its Stream: its end is closed
closing(thread, side, connection) ==
    IF thread.pc \in {"done", "failed"}
    THEN [connection EXCEPT !.open = [@ EXCEPT ![side] = FALSE]]
    ELSE connection

Peer(side) == IF side = "client" THEN "server" ELSE "client"

\* the lines a side writes to and reads from
Outgoing(side) == IF side = "client" THEN "up" ELSE "down"

\* Stream::write by the thread on its side of the connection: one line,
\* flushed; on a connection the peer has closed the write may fail. A line
\* tells who wrote it in which round, and `re` the line its writer had read
\* last
Stream_write(thread, side, connection, ok) ==
    LET line == [from |-> thread.name, i |-> thread.i,
                 re |-> IF thread.got = <<>> THEN <<>>
                        ELSE <<thread.got[1].from, thread.got[1].i>>]
        after == IF ok THEN advanced(thread) ELSE failed(thread)
        written == IF ok /\ connection.open[Peer(side)]
                   THEN [connection EXCEPT ![Outgoing(side)] = Append(@, line)]
                   ELSE connection
    IN  [thread |-> after, connection |-> closing(after, side, written)]

\* Stream::read: the next line when there is one; with no line left and
\* the peer's end closed read_line gives 0 bytes, which is an error
Stream_read(thread, side, connection) ==
    LET lines == connection[Outgoing(Peer(side))]
        after == IF lines # <<>>
                 THEN advanced([thread EXCEPT !.got = <<Head(lines)>>])
                 ELSE failed(thread)
        taken == IF lines # <<>>
                 THEN [connection EXCEPT ![Outgoing(Peer(side))] = Tail(@)]
                 ELSE connection
    IN  [thread |-> after, connection |-> closing(after, side, taken)]

\* read_line blocks while no line has come and the peer's end is open
CanRead(side, connection) ==
    connection[Outgoing(Peer(side))] # <<>> \/ ~connection.open[Peer(side)]

socket_frame ==
    UNCHANGED <<guards, wire, stack, robot, exited,
                param_stack, param_sent, chan, param>>

\* socket_test up to the spawning of the clients: the listener is bound
\* before the first client thread exists
socket_test ==
    /\ op = "new"
    /\ \E n \in 1..MaxClients : given' = [c \in 1..n |-> Started(<<"client", c>>, "connect", 0)]
    /\ op' = "socket_test"
    /\ UNCHANGED <<sent, reply, result>>
    /\ socket_frame

\* Stream::connect of a client: the connection is made with the listener,
\* accepted or not yet
connect ==
    /\ \E c \in 1..Len(given) :
        /\ given[c].pc = "connect"
        /\ sent' = Append(sent, [client |-> c, accepted |-> FALSE,
                                 up |-> <<>>, down |-> <<>>,
                                 open |-> [client |-> TRUE, server |-> TRUE]])
        /\ given' = [given EXCEPT ![c] = Started(<<"client", c>>, "round", Len(sent) + 1)]
    /\ op' = "connect"
    /\ UNCHANGED <<reply, result>>
    /\ socket_frame

\* a call of a client's round
client_call ==
    /\ \E c \in 1..Len(given) :
        LET thread == given[c]
            stepped(out) == /\ given' = [given EXCEPT ![c] = out.thread]
                            /\ sent' = [sent EXCEPT ![thread.conn] = out.connection]
        IN  /\ thread.pc = "round"
            /\ IF client_round[thread.step] = "write"
               THEN \E ok \in IF sent[thread.conn].open.server THEN {TRUE} ELSE BOOLEAN :
                        stepped(Stream_write(thread, "client", sent[thread.conn], ok))
               ELSE /\ CanRead("client", sent[thread.conn])
                    /\ stepped(Stream_read(thread, "client", sent[thread.conn]))
    /\ op' = "client"
    /\ UNCHANGED <<reply, result>>
    /\ socket_frame

\* Listener::accept in the loop of socket_test, and the spawning of the
\* handler: the connection that has waited longest
accept ==
    /\ Len(reply) < Len(given)
    /\ \E k \in 1..Len(sent) :
        /\ ~sent[k].accepted
        /\ \A j \in 1..(k - 1) : sent[j].accepted
        /\ sent' = [sent EXCEPT ![k].accepted = TRUE]
        /\ reply' = Append(reply, Started(<<"server", Len(reply) + 1>>, "round", k))
    /\ op' = "accept"
    /\ UNCHANGED <<given, result>>
    /\ socket_frame

\* a call of a handler's round
handle_call ==
    /\ \E h \in 1..Len(reply) :
        LET thread == reply[h]
            stepped(out) == /\ reply' = [reply EXCEPT ![h] = out.thread]
                            /\ sent' = [sent EXCEPT ![thread.conn] = out.connection]
        IN  /\ thread.pc = "round"
            /\ IF handle_round[thread.step] = "write"
               THEN \E ok \in IF sent[thread.conn].open.client THEN {TRUE} ELSE BOOLEAN :
                        stepped(Stream_write(thread, "server", sent[thread.conn], ok))
               ELSE /\ CanRead("server", sent[thread.conn])
                    /\ stepped(Stream_read(thread, "server", sent[thread.conn]))
    /\ op' = "handle"
    /\ UNCHANGED <<given, result>>
    /\ socket_frame

\* `h.join().unwrap().unwrap()` over every thread
joined ==
    /\ op # "joined" /\ given # <<>>
    /\ Len(reply) = Len(given)
    /\ \A c \in 1..Len(given) : given[c].pc \in {"done", "failed"}
    /\ \A h \in 1..Len(reply) : reply[h].pc \in {"done", "failed"}
    /\ result' = IF /\ \A c \in 1..Len(given) : given[c].pc = "done"
                    /\ \A h \in 1..Len(reply) : reply[h].pc = "done"
                 THEN "Ok" ELSE "Panic"
    /\ op' = "joined"
    /\ UNCHANGED <<given, sent, reply>>
    /\ socket_frame

Init ==
    /\ guards = <<>>
    /\ wire = <<>>
    /\ result = "None"
    /\ op = "new"
    /\ stack = <<>>
    /\ robot = [frame |-> [x |-> 0, rz |-> 0], joint |-> <<0, 0>>]
    /\ sent = <<>>
    /\ exited = <<>>
    /\ param_stack = <<>>
    /\ param_sent = <<>>
    /\ given = <<>>
    /\ chan = [pc |-> "idle", log |-> <<>>]
    /\ reply = <<>>
    /\ param = MotionParam_default

Next ==
    \/ execute
    \/ with_execute
    \/ guard_drop
    \/ pop

Spec == Init /\ [][Next]_vars

NextCtx ==
    \/ enter
    \/ exit
    \/ motion

SpecCtx == Init /\ [][NextCtx]_vars

NextClamp ==
    \/ call_new
    \/ call_default
    \/ call_set_speed
    \/ call_set_accel
    \/ call_set_blend_linear
    \/ call_set_blend_angular
    \/ call_set_tcp_speed_linear
    \/ call_set_tcp_speed_angular
    \/ deserialize

SpecClamp == Init /\ [][NextClamp]_vars

NextParam ==
    \/ enter_param
    \/ enter_motion
    \/ exit_top

SpecParam == Init /\ [][NextParam]_vars

NextMachine ==
    \/ enter_param
    \/ enter_motion
    \/ exit_top
    \/ call_set_param
    \/ call_sleep
    \/ call_get
    \/ call_sequence

SpecMachine == Init /\ [][NextMachine]_vars

NextSeq ==
    \/ sequence
    \/ with_sequence
    \/ seq_guard_drop

SpecSeq == Init /\ [][NextSeq]_vars

NextWire ==
    \/ instruction_write
    \/ instruction_read

SpecWire == Init /\ [][NextWire]_vars

NextCodec ==
    \/ io_get
    \/ gripper_get
    \/ get_data_i64
    \/ get_data_String

SpecCodec == Init /\ [][NextCodec]_vars

NextEncode ==
    \/ tokens
    \/ instruction_encoded

SpecEncode == Init /\ [][NextEncode]_vars

NextPose ==
    \/ get_current_transform
    \/ get_current_joint

SpecPose == Init /\ [][NextPose]_vars

NextBuilder ==
    \/ new
    \/ then
    \/ then_linear
    \/ then_linear_relative
    \/ then_joint
    \/ then_joint_relative
    \/ then_sleep
    \/ then_sync
    \/ then_set_param
    \/ from_iter
    \/ iter

SpecBuilder == Init /\ [][NextBuilder]_vars

NextLog ==
    \/ empty
    \/ default_target
    \/ default_target_with_levels
    \/ call_log
    \/ error
    \/ warn
    \/ info
    \/ debug
    \/ trace

SpecLog == Init /\ [][NextLog]_vars

NextBridge ==
    \/ start_sequence
    \/ stop_sequence
    \/ run_sequence

SpecBridge == Init /\ [][NextBridge]_vars

NextChain ==
    \/ with_chain
    \/ with_execute
    \/ guard_drop

SpecChain == Init /\ [][NextChain]_vars

NextNest == nested

SpecNest == Init /\ [][NextNest]_vars

NextInovo ==
    \/ new_inovo
    \/ run_sequence

SpecInovo == Init /\ [][NextInovo]_vars

NextRolling ==
    \/ rolling_new
    \/ rolling_log

SpecRolling == Init /\ [][NextRolling]_vars

NextPolling ==
    \/ until_sequence_stop
    \/ poll

SpecPolling == Init /\ [][NextPolling]_vars

NextSocket ==
    \/ socket_test
    \/ connect
    \/ client_call
    \/ accept
    \/ handle_call
    \/ joined

SpecSocket == Init /\ [][NextSocket]_vars

\* every thread that can run does run in the end
SpecSocketFair == SpecSocket /\ WF_vars(NextSocket)

----------------------------------------------------------------------------
(* Reading the wire of Spec *)

Range(f) == {f[k] : k \in DOMAIN f}
Max(S) == CHOOSE m \in S : \A n \in S : n <= m

\* round trip k is a push the robot acknowledged: a context was entered
Acked(w, k) == w[k].inst = "ExecutePush" /\ w[k].outcome = "OK"
\* round trip k is the Pop of a guard's drop: the exit of context w[k].by
DropPop(w, k) == w[k].inst = "Pop" /\ w[k].by # 0
\* the contexts entered and not yet exited just before round trip k
OpenBefore(w, k) ==
    {e \in 1..(k - 1) : Acked(w, e) /\ ~\E x \in (e + 1)..(k - 1) : DropPop(w, x) /\ w[x].by = e}
ExitsOf(w, e) == {x \in 1..Len(w) : DropPop(w, x) /\ w[x].by = e}

PushStep == Len(wire') = Len(wire) + 1 /\ wire'[Len(wire')].inst = "ExecutePush"
DropStep == Len(wire') = Len(wire) + 1 /\ DropPop(wire', Len(wire'))

----------------------------------------------------------------------------
(* Claims about the guards of Spec *)

\* C1: exits run in the reverse order of the enters: every exit is the exit of
\* the most recently entered context that is still open.
C1_LifoExits ==
    \A k \in 1..Len(wire) :
        DropPop(wire, k) =>
            /\ OpenBefore(wire, k) # {}
            /\ wire[k].by = Max(OpenBefore(wire, k))

\* A entered, B entered, B exited, A exited.
C1_Witness ==
    \E a, b, xb, xa \in 1..Len(wire) :
        /\ a < b /\ b < xb /\ xb < xa
        /\ Acked(wire, a) /\ Acked(wire, b)
        /\ DropPop(wire, xb) /\ wire[xb].by = b
        /\ DropPop(wire, xa) /\ wire[xa].by = a

\* C2: a context is entered only when its push was acknowledged with OK; a
\* push that fails returns the error, leaves the chain of guards as it was,
\* and no exit ever runs for it.
C2_EnterOnlyOnSuccess ==
    [][ /\ PushStep =>
            IF wire'[Len(wire')].outcome = "OK"
            THEN result' = "Ok" /\ guards' = Append(guards, Len(wire'))
            ELSE result' \in {"ResponseError", "SocketError"} /\ guards' = guards
        /\ \A k \in 1..Len(wire') :
            DropPop(wire', k) => Acked(wire', wire'[k].by)
      ]_vars

\* A push failed while a guard was open; that guard has since been dropped and
\* nothing is left open.
C2_Witness ==
    /\ guards = <<>>
    /\ \E k, x \in 1..Len(wire) :
        /\ wire[k].inst = "ExecutePush" /\ wire[k].outcome # "OK"
        /\ k < x /\ DropPop(wire, x)

\* C4: the drop of a guard takes exactly the top entry off the chain whether
\* or not its Pop succeeded.
C4_ExitAlwaysPops ==
    [][ DropStep =>
            /\ Len(guards') = Len(guards) - 1
            /\ guards' = SubSeq(guards, 1, Len(guards) - 1)
      ]_vars

\* A Pop failed and its guard is gone, under a guard that is still open.
C4_Witness ==
    /\ op = "drop"
    /\ wire[Len(wire)].outcome # "OK"
    /\ guards # <<>>
    /\ wire[Len(wire)].by \notin Range(guards)

\* C5: a failing teardown is reported to the caller of the exit.
C5_TeardownErrorReported ==
    (op = "drop" /\ wire[Len(wire)].outcome # "OK")
        => result \in {"ResponseError", "SocketError"}

\* C6: the exit of a guard's context has run exactly once when the guard is
\* gone, and not at all while the guard is alive.
C6_ExitExactlyOnce ==
    \A e \in 1..Len(wire) :
        Acked(wire, e) =>
            Cardinality(ExitsOf(wire, e)) = IF e \in Range(guards) THEN 0 ELSE 1

\* Two nested guards, the inner dropped early, a command through the outer,
\* then the outer dropped.
C6_Witness ==
    /\ guards = <<>>
    /\ \E a, b, xb, m, xa \in 1..Len(wire) :
        /\ a < b /\ b < xb /\ xb < m /\ m < xa
        /\ Acked(wire, a) /\ Acked(wire, b)
        /\ wire[xb].by = b /\ wire[xa].by = a
        /\ wire[m].inst = "Execute"

\* C7: dropping the inner of two nested guards runs the inner exit only: one
\* Pop, for the inner context; the outer guard stays and has not been exited.
C7_InnerDropOnly ==
    [][ (DropStep /\ Len(guards) >= 2) =>
            /\ wire'[Len(wire')].by = guards[Len(guards)]
            /\ guards' = SubSeq(guards, 1, Len(guards) - 1)
            /\ \A g \in Range(guards') : ExitsOf(wire', g) = {}
      ]_vars

\* The inner guard was dropped and a command then went through the outer
\* guard, which is still open.
C7_Witness ==
    /\ Len(guards) = 1
    /\ op = "execute" /\ result = "Ok"
    /\ \E xb \in 1..Len(wire) :
        /\ DropPop(wire, xb) /\ wire[xb].by > guards[1]
        /\ xb < Len(wire)

----------------------------------------------------------------------------
(* Claims about the context machine and the MotionContext of SpecCtx *)

Absolute(e) == e.ctx.motion_type \in {"Linear", "Joint"}
Top == stack[Len(stack)]

\* C3: exit() on an empty stack returns NoContextToExit, runs no exit action,
\* sends nothing and leaves the stack empty.
C3_ExitOnEmpty ==
    [][ (op' = "exit" /\ stack = <<>>) =>
            /\ result' = "NoContextToExit"
            /\ sent' = <<>>
            /\ exited' = <<>>
            /\ stack' = <<>>
            /\ robot' = robot
      ]_vars

\* exit() was called with nothing entered, away from the robot's first pose.
C3_Witness ==
    /\ op = "exit" /\ result = "NoContextToExit"
    /\ stack = <<>>
    /\ robot.joint # <<0, 0>>

\* C8: an absolute Motion Context built with target T and entered when the
\* robot is at P0 sends Motion(mode, T) on enter and Motion(mode, P0) on exit.
C8_AbsoluteReversal ==
    /\ (op = "enter" /\ result = "Ok" /\ Absolute(Top)) =>
            sent = <<Current(Top.arg.kind), Motion(Top.ctx.motion_type, Top.arg)>>
    /\ (op = "exit" /\ exited # <<>> /\ Absolute(exited[1])) =>
            sent = <<Motion(exited[1].ctx.motion_type,
                            [kind |-> exited[1].arg.kind, v |-> exited[1].before])>>

\* An absolute context was exited after other motions had been sent inside it,
\* and it had really moved the robot.
C8_Witness ==
    /\ op = "exit" /\ exited # <<>> /\ result = "Ok"
    /\ Absolute(exited[1])
    /\ exited[1].inner
    /\ exited[1].before # exited[1].arg.v

IsInverse(d, e) ==
    /\ d.kind = e.kind
    /\ IF d.kind = "Joint"
       THEN \A i \in 1..2 : d.v[i] + e.v[i] = 0
       ELSE mul(d.v, e.v) = identity /\ mul(e.v, d.v) = identity

\* C9: a relative Motion Context built with delta D sends Motion(mode, D) on
\* enter, with no current-pose query, and Motion(mode, inverse of D) on exit.
C9_RelativeReversal ==
    /\ (op = "enter" /\ result = "Ok" /\ ~Absolute(Top)) =>
            sent = <<Motion(Top.ctx.motion_type, Top.arg)>>
    /\ (op = "exit" /\ exited # <<>> /\ ~Absolute(exited[1])) =>
            /\ Len(sent) = 1
            /\ sent[1].inst = "Execute"
            /\ sent[1].motion_type = exited[1].ctx.motion_type
            /\ IsInverse(exited[1].arg, sent[1].pose)

\* A relative context whose delta turns the frame was exited.
C9_Witness ==
    /\ op = "exit" /\ exited # <<>> /\ result = "Ok"
    /\ ~Absolute(exited[1])
    /\ exited[1].arg.kind = "Transform"
    /\ exited[1].arg.v.rz = 180

\* C10 as stated: after a successful exit the robot's pose is the pose it had
\* just before the enter, whatever was done in between.
C10_PoseRestored ==
    (op = "exit" /\ exited # <<>> /\ result = "Ok")
        => current_pose(robot, exited[1].arg.kind) = exited[1].before

\* the pose a relative context leaves the robot in right after its enter
AfterEnter(e) ==
    IF e.arg.kind = "Joint" THEN add_joint(e.before, e.arg.v) ELSE mul(e.before, e.arg.v)

\* C10 amended: after a successful exit of an absolute context the robot's
\* pose (of the target's kind) is the pose it had just before the enter,
\* whatever was done in between; after a successful exit of a relative context
\* it is that pose exactly when the motions in between left the pose where the
\* enter had put it.
C10_RestoredAbsoluteOrNoNetMotion ==
    [][ (op' = "exit" /\ stack # <<>> /\ result' = "Ok") =>
            LET e == Top
                now == current_pose(robot, e.arg.kind)
                after == current_pose(robot', e.arg.kind)
            IN  IF Absolute(e)
                THEN after = e.before
                ELSE (after = e.before) <=> (now = AfterEnter(e))
      ]_vars

\* A relative context was exited with nothing done inside it, and the robot is
\* back where it was.
C10_Witness ==
    /\ op = "exit" /\ exited # <<>> /\ result = "Ok"
    /\ ~Absolute(exited[1])
    /\ ~exited[1].inner
    /\ current_pose(robot, exited[1].arg.kind) = exited[1].before

----------------------------------------------------------------------------
(* Claims about MotionParam, under SpecClamp *)

InRange(x, min, max) == ~x.nan /\ min <= x.v /\ x.v <= max

\* C19: every MotionParam a caller can hold has its six fields inside their
\* ranges: speed and accel in [0.01, 100], blend_linear and tcp_speed_linear
\* in [0.01, 1000], blend_angular and tcp_speed_angular in [0.001, 720].
C19_FieldsInRange ==
    /\ InRange(param.speed, MIN_PERCENT, MAX_PERCENT)
    /\ InRange(param.accel, MIN_PERCENT, MAX_PERCENT)
    /\ InRange(param.blend_linear, MIN_LENGHT, MAX_LENGHT)
    /\ InRange(param.tcp_speed_linear, MIN_LENGHT, MAX_LENGHT)
    /\ InRange(param.blend_angular, MIN_ANGLE, MAX_ANGLE)
    /\ InRange(param.tcp_speed_angular, MIN_ANGLE, MAX_ANGLE)

----------------------------------------------------------------------------
(* Claims about the ParamContext, under SpecParam *)

Last(q) == q[Len(q)]
Front(q) == SubSeq(q, 1, Len(q) - 1)

\* C11: enter of a Parameter Context with snapshot S pushes the default and
\* then S when the ParamStack is empty, only S otherwise; S is on top of the
\* ParamStack afterwards and exactly one SetParameter(S) has been sent.
C11_EnterPushesSnapshot ==
    [][ (op' = "enter_param") =>
            LET S == given'[1]
            IN  /\ param_stack' = IF param_stack = <<>>
                                  THEN <<MotionParam_default, S>>
                                  ELSE Append(param_stack, S)
                /\ Last(param_stack') = S
                /\ sent' = <<SetParameter(S)>>
      ]_vars

\* A second Parameter Context was entered inside the first: the default, the
\* first snapshot and the new one on top.
C11_Witness ==
    /\ op = "enter_param" /\ result = "Ok"
    /\ Len(stack) = 2
    /\ param_stack = <<MotionParam_default, stack[1].ctx.param, given[1]>>
    /\ stack[1].ctx.param # given[1]

\* C12: exit of a Parameter Context pops one element of the ParamStack and
\* then sends SetParameter of the new top, or of the default when nothing is
\* left: after A then B, the first exit sends A and the second the default.
C12_ExitPopsAndSendsTop ==
    [][ (op' = "exit" /\ stack # <<>> /\ Last(stack).kind = "Param") =>
            /\ param_stack # <<>>
            /\ param_stack' = Front(param_stack)
            /\ sent' = <<SetParameter(IF param_stack' = <<>>
                                      THEN MotionParam_default
                                      ELSE Last(param_stack'))>>
            /\ (param_stack = <<MotionParam_default, fast, slow>>
                    => sent' = <<SetParameter(fast)>>)
            /\ (param_stack = <<MotionParam_default, fast>>
                    => sent' = <<SetParameter(MotionParam_default)>>)
      ]_vars

\* fast then slow were entered and slow has been exited: fast was sent.
C12_Witness ==
    /\ op = "exit" /\ exited # <<>>
    /\ exited[1].kind = "Param" /\ exited[1].ctx.param = slow
    /\ Len(stack) = 1 /\ stack[1].kind = "Param" /\ stack[1].ctx.param = fast
    /\ param_stack = <<MotionParam_default, fast>>
    /\ sent = <<SetParameter(fast)>>

\* C13: the MotionParam the exit of a Parameter Context sends is the one that
\* was sent most recently before the enter of that context.
C13_ExitRestoresParam ==
    (op = "exit" /\ exited # <<>> /\ exited[1].kind = "Param" /\ exited[1].before # <<>>)
        => sent = <<SetParameter(exited[1].before[1])>>

----------------------------------------------------------------------------
(* Claims about the sequencer, under SpecSeq *)

AllOK(q) == \A k \in 1..Len(q) : q[k].outcome = "OK"
\* the Enqueue round trips of the first n commands of a sequence, all
\* answered as in q
Enqueues(command_sequence, q, n) ==
    [k \in 1..n |-> Enqueue(command_sequence[k], q[k].outcome)]
\* what a failed round trip returns to the caller
ErrorOf(outcome) == IF outcome = "SocketError" THEN "SocketError" ELSE "ResponseError"

\* C14: sequence(cs) of N commands, every instruction acknowledged with OK,
\* sends N Enqueue, one per command in the order of cs, then one Dequeue, and
\* nothing else.
C14_EnqueuesThenDequeue ==
    [][ (op' = "sequence" /\ AllOK(sent')) =>
            LET N == Len(given')
            IN  /\ Len(sent') = N + 1
                /\ \A k \in 1..N : sent'[k] = Enqueue(given'[k], "OK")
                /\ sent'[N + 1] = RoundTrip("Dequeue", "OK", 0)
                /\ wire' = wire \o sent'
                /\ result' = "Ok"
      ]_vars

\* A sequence of two different commands went through.
C14_Witness ==
    /\ op = "sequence" /\ result = "Ok"
    /\ Len(given) = 2 /\ given[1] # given[2]
    /\ Len(sent) = 3

\* C15: when the k-th Enqueue of sequence(cs) fails, exactly k Enqueue have
\* been sent, for the first k commands; no further Enqueue and no Dequeue is
\* sent, and the caller gets the error of that k-th Enqueue.
C15_StopsAtFailedEnqueue ==
    [][ \A k \in 1..Len(sent') :
            (op' = "sequence" /\ sent'[k].inst = "Enqueue" /\ sent'[k].outcome # "OK") =>
                /\ Len(sent') = k
                /\ sent' = Enqueues(given', sent', k)
                /\ AllOK(SubSeq(sent', 1, k - 1))
                /\ wire' = wire \o sent'
                /\ result' = ErrorOf(sent'[k].outcome)
      ]_vars

\* The second of two Enqueue failed with a reply other than OK.
C15_Witness ==
    /\ op = "sequence" /\ result = "ResponseError"
    /\ Len(given) = 2 /\ Len(sent) = 2
    /\ sent[1].outcome = "OK" /\ sent[2].outcome = "NotOK"

\* C16: in sequence(cs) every instruction but the first is sent only after the
\* one before it was answered with the literal OK, the Dequeue only after all
\* N Enqueue were; a reply that is any other text is a ResponseError.
C16_EachAcknowledgedBeforeNext ==
    (op = "sequence") =>
        /\ \A k \in 2..Len(sent) : sent[k - 1].outcome = "OK"
        /\ \A k \in 1..Len(sent) :
            sent[k].inst = "Dequeue" =>
                /\ k = Len(given) + 1
                /\ \A j \in 1..Len(given) : sent[j].inst = "Enqueue" /\ sent[j].outcome = "OK"
        /\ (sent[Len(sent)].outcome \notin {"OK", "SocketError"} <=> result = "ResponseError")
        /\ (sent[Len(sent)].outcome = "OK" <=> result = "Ok")

\* The Dequeue after two acknowledged Enqueue got a reply other than OK.
C16_Witness ==
    /\ op = "sequence" /\ result = "ResponseError"
    /\ Len(given) = 2 /\ Len(sent) = 3
    /\ sent[3].inst = "Dequeue"

\* round trip k is a dequeue-push the robot acknowledged
AckedDequeuePush(w, k) == w[k].inst = "DequeuePush" /\ w[k].outcome = "OK"

\* C17: with_sequence(cs) sends the N Enqueue in order, then one dequeue-push;
\* when all were acknowledged it returns a guard, whose drop sends one Pop;
\* when an Enqueue or the dequeue-push fails it returns the error and no
\* guard, and no Pop is ever sent for that call.
C17_WithSequenceGuard ==
    [][ /\ (op' = "with_sequence") =>
            LET N == Len(given')
                n == Len(sent')
            IN  /\ wire' = wire \o sent'
                /\ n <= N + 1
                /\ AllOK(SubSeq(sent', 1, n - 1))
                /\ \A k \in 1..n : k <= N => sent'[k] = Enqueue(given'[k], sent'[k].outcome)
                /\ n = N + 1 => sent'[n].inst = "DequeuePush"
                /\ IF n = N + 1 /\ AllOK(sent')
                   THEN result' = "Ok" /\ guards' = Append(guards, Len(wire'))
                   ELSE result' = ErrorOf(sent'[n].outcome) /\ guards' = guards
        /\ \A k \in 1..Len(wire') :
            /\ DropPop(wire', k) => AckedDequeuePush(wire', wire'[k].by)
            /\ AckedDequeuePush(wire', k) =>
                Cardinality(ExitsOf(wire', k)) = IF k \in Range(guards') THEN 0 ELSE 1
      ]_vars

\* A with_sequence failed at its dequeue-push inside the guard of an earlier
\* one, and that guard has been dropped since.
C17_Witness ==
    /\ op = "drop" /\ guards = <<>>
    /\ \E a, b \in 1..Len(wire) :
        /\ a < b /\ b < Len(wire)
        /\ AckedDequeuePush(wire, a)
        /\ wire[b].inst = "DequeuePush" /\ wire[b].outcome # "OK"
        /\ wire[Len(wire)].by = a

----------------------------------------------------------------------------
(* Claims about the socket, under SpecWire *)

\* the requests written and the replies read so far
Requests(log) == {k \in 1..Len(log) : log[k].ev = "write" /\ log[k].ok}
Replies(log) == {k \in 1..Len(log) : log[k].ev = "read" /\ log[k].ok}
ReadFailed(log) == \E k \in 1..Len(log) : log[k].ev = "read" /\ ~log[k].ok
Outstanding(log) == Cardinality(Requests(log)) - Cardinality(Replies(log))

----------------------------------------------------------------------------
(* Claims about decoding, under SpecCodec *)

\* the reply texts that are numbers, with the f64 each one writes
C20_Floats ==
    { <<<<"1">>, [kind |-> "num", m |-> 1, e |-> 0]>>,
      <<<<"0">>, [kind |-> "num", m |-> 0, e |-> 0]>>,
      <<<<"3", ".", "5">>, [kind |-> "num", m |-> 35, e |-> -1]>>,
      <<<<"+", "3", ".", "5">>, [kind |-> "num", m |-> 35, e |-> -1]>>,
      <<<<"-", "3", ".", "5">>, [kind |-> "num", m |-> -35, e |-> -1]>>,
      <<<<".", "5">>, [kind |-> "num", m |-> 5, e |-> -1]>>,
      <<<<"5", ".">>, [kind |-> "num", m |-> 5, e |-> 0]>>,
      <<<<"3", "5", "e", "-", "1">>, [kind |-> "num", m |-> 35, e |-> -1]>>,
      <<<<"1", "e", "2">>, [kind |-> "num", m |-> 1, e |-> 2]>>,
      <<<<"1", "0", "0">>, [kind |-> "num", m |-> 1, e |-> 2]>>,
      <<<<"-", "2">>, [kind |-> "num", m |-> -2, e |-> 0]>>,
      <<<<"i", "n", "f">>, [kind |-> "inf", m |-> 1, e |-> 0]>>,
      <<<<"-", "I", "n", "f", "i", "n", "i", "t", "y">>, [kind |-> "inf", m |-> -1, e |-> 0]>>,
      <<<<"N", "a", "N">>, [kind |-> "nan", m |-> 0, e |-> 0]>>,
      <<<<"3", ".", "5", "0">>, [kind |-> "num", m |-> 35, e |-> -1]>> }

\* the reply texts that are integers, with the i64 each one writes
C20_Integers ==
    { <<<<"1">>, 1>>,
      <<<<"0">>, 0>>,
      <<<<"1", "0", "0">>, 100>>,
      <<<<"-", "2">>, -2>> }

C20_Decoded == result.ok /\ result.err = ""
C20_ParseError == ~result.ok /\ result.err = "ResponseError" /\ result.val = <<>>

----------------------------------------------------------------------------
(* C21 *)

\* the discriminator token of each variant of Instruction
Discriminator(tag) ==
    CASE tag = "Execute" -> "EXECUTE"
      [] tag = "Enqueue" -> "ENQUEUE"
      [] tag = "Dequeue" -> "DEQUEUE"
      [] tag = "Gripper" -> "GRIPPER"
      [] tag = "Digital" -> "DIGITAL"
      [] tag = "Current" -> "CURRENT"
      [] tag = "Custom" -> "CUSTOM"

SocketFailed(log) == \E k \in 1..Len(log) : ~log[k].ok

----------------------------------------------------------------------------
(* C22, C23 *)

IsZero(v) == v.kind = "num" /\ v.m = 0

TransformKeys == {<<"x">>, <<"y">>, <<"z">>, <<"r", "x">>, <<"r", "y">>, <<"r", "z">>}

\* the field of a decoded Transform that a key names
Field(transform, key) ==
    CASE key = <<"x">> -> transform.x
      [] key = <<"y">> -> transform.y
      [] key = <<"z">> -> transform.z
      [] key = <<"r", "x">> -> transform.rx
      [] key = <<"r", "y">> -> transform.ry
      [] key = <<"r", "z">> -> transform.rz

\* C22: in a decoded pose every key of the fixed set that the reply does not
\* hold gives the value zero, whatever other keys the reply holds: for a
\* cartesian reply the keys x, y, z, rx, ry, rz, for a joint reply the
\* values after the last one the reply holds.
C22_AbsentKeysZero ==
    /\ (op = "get_current_transform" /\ \E r \in TransformReplies : r.text = reply) =>
        /\ result.ok
        /\ LET r == CHOOSE r \in TransformReplies : r.text = reply
           IN  \A key \in TransformKeys \ r.keys : IsZero(Field(result.val, key))
    /\ (op = "get_current_joint" /\ \E r \in JointReplies : r.text = reply) =>
        /\ result.ok
        /\ LET r == CHOOSE r \in JointReplies : r.text = reply
           IN  \A k \in 1..6 : k > r.values => IsZero(result.val[k])

Malformed(kind, text) ==
    IF kind = "Transform" THEN ~\E r \in TransformReplies : r.text = text
    ELSE ~\E r \in JointReplies : r.text = text

\* C23: a pose reply of malformed structure (no key:value structure or list,
\* or values that are not numbers) is answered with a response-parse error,
\* never with a pose.
C23_MalformedFails ==
    /\ (op = "get_current_transform" /\ result.err # "SocketError"
            /\ Malformed("Transform", reply)) =>
        ~result.ok /\ result.err = "ResponseError"
    /\ (op = "get_current_joint" /\ result.err # "SocketError"
            /\ Malformed("Joint", reply)) =>
        ~result.ok /\ result.err = "ResponseError"

----------------------------------------------------------------------------
(* C24 *)

\* C24: no instruction is sent again: a call on a sequence makes at most one
\* round trip for each of its commands, in their order, and at most one for
\* the dequeue; a round trip that fails (socket error or a reply that is not
\* OK) is the last one of the call, and the call returns that error. The drop
\* of a guard sends its Pop once whatever the answer.
C24_NoRetry ==
    /\ op \in {"sequence", "with_sequence"} =>
        /\ Len(sent) <= Len(given) + 1
        /\ \A k \in 1..Len(sent) :
            /\ k <= Len(given) => sent[k].inst = "Enqueue" /\ sent[k].cmd = given[k]
            /\ k = Len(given) + 1 => sent[k].inst \in {"Dequeue", "DequeuePush"}
            /\ sent[k].outcome # "OK" =>
                k = Len(sent) /\ result = ErrorOf(sent[k].outcome)
    /\ op = "drop" => Len(sent) = 1 /\ sent[1].inst = "Pop"

\* a sequence of two commands whose first Enqueue met a socket error: nothing
\* was sent after it
C24_Witness ==
    /\ op = "sequence" /\ Len(given) = 2
    /\ Len(sent) = 1 /\ sent[1].outcome = "SocketError"
    /\ result = "SocketError"

----------------------------------------------------------------------------
(* C25 *)

\* C25: a step changes the ParamStack only when it is the enter of a
\* Parameter Context or the exit of one: the enter and exit of a Motion
\* Context, set_param, sleep, the queries and sequence leave it as it was.
C25_ParamStackFrame ==
    [][param_stack' # param_stack =>
        \/ op' = "enter_param"
        \/ op' = "exit" /\ exited' # <<>> /\ exited'[1].kind = "Param"]_vars

\* set_param(slow) was acknowledged inside the Parameter Context of fast: the
\* ParamStack still holds the default and fast
C25_Witness ==
    /\ op = "set_param" /\ result = "Ok"
    /\ given = <<slow>>
    /\ param_stack = <<MotionParam_default, fast>>

----------------------------------------------------------------------------
(* C26 *)

Thens ==
    {"then", "then_linear", "then_linear_relative", "then_joint",
     "then_joint_relative", "then_sleep", "then_sync", "then_set_param"}

\* C26: then(c) and its then_* forms give the sequence held before, every
\* element at its place, followed by c; a sequence collected from an iterator
\* and iterated back gives the items of the iterator in their order.
C26_AppendOnlyBuilder ==
    [][/\ op' \in Thens =>
            /\ Len(given') = Len(given) + 1
            /\ \A k \in 1..Len(given) : given'[k] = given[k]
            /\ given'[Len(given')] = result'
       /\ (op = "from_iter" /\ op' = "iter") => sent' = sent]_vars

\* a second command was appended with then_sleep, and a sequence collected
\* from two different items was iterated back
C26_Witness ==
    \/ /\ op = "then_sleep" /\ Len(given) = 2
       /\ given[1] # given[2]
    \/ /\ op = "iter" /\ Len(sent) = 2 /\ sent[1] # sent[2]

----------------------------------------------------------------------------
(* C27 *)

LogOps == {"log", "error", "warn", "info", "debug", "trace"}

\* the levels from the least to the most severe
LevelOrder == <<"Trace", "Debug", "Info", "Warn", "Error", "Off">>

Rank(log_level) == CHOOSE k \in 1..Len(LevelOrder) : LevelOrder[k] = log_level

\* the level each wrapper logs at
LevelOf(by) ==
    CASE by = "error" -> "Error"
      [] by = "warn" -> "Warn"
      [] by = "info" -> "Info"
      [] by = "debug" -> "Debug"
      [] by = "trace" -> "Trace"

\* C27: a target receives a message exactly when its level is at most the
\* level of the message in the order Trace < Debug < Info < Warn < Error <
\* Off; the default logger has its console at Info and its file at Debug, so
\* a trace message reaches neither, a debug message the file only, and an
\* info, warn or error message both.
C27_TargetsFilterByLevel ==
    [][/\ op' \in LogOps =>
            LET m == sent'[Len(sent')]
                Received(i) == given'[i].out # given[i].out
            IN /\ op' # "log" => m.log_level = LevelOf(op')
               /\ Len(given') = Len(given)
               /\ \A i \in 1..Len(given) :
                    /\ Received(i) <=> Rank(given[i].log_level) <= Rank(m.log_level)
                    /\ Received(i) =>
                        given'[i].out =
                            Append(given[i].out, [level |-> m.log_level, text |-> m.msg])
                    /\ given'[i].log_level = given[i].log_level
       /\ op' = "default_target" =>
            /\ Len(given') = 2
            /\ given'[1].kind = "console" /\ given'[1].log_level = "Info"
            /\ given'[2].kind = "file" /\ given'[2].log_level = "Debug"
       /\ (op = "default_target" /\ op' \in LogOps \ {"log"}) =>
            /\ Len(given'[1].out) = (IF op' \in {"info", "warn", "error"} THEN 1 ELSE 0)
            /\ Len(given'[2].out) = (IF op' = "trace" THEN 0 ELSE 1)]_vars

\* the default logger was given a debug message and then an info message:
\* its console holds the second only, its file both
C27_Witness ==
    /\ op = "info" /\ Len(given) = 2
    /\ given[1].log_level = "Info" /\ given[2].log_level = "Debug"
    /\ Len(sent) = 2 /\ sent[1].log_level = "Debug"
    /\ Len(given[1].out) = 1 /\ given[1].out[1].level = "Info"
    /\ Len(given[2].out) = 2 /\ given[2].out[1].level = "Debug"

----------------------------------------------------------------------------
(* C28 *)

IsStart(call, name) == call.service = "/sequence/start" /\ call.procedure_name = name

IsStop(call) == call.service = "/sequence/stop"

\* C28: run_sequence(name) first starts the sequence; when that succeeds it
\* returns Ok and nothing else is called; when it fails stop is called; when
\* stop fails its error is returned and no second start is made; when stop
\* succeeds the sequence is started a second time and the result of that
\* start is returned.
C28_RunSequenceRestarts ==
    op = "run_sequence" =>
        LET name == given[1] IN
        /\ Len(sent) \in 1..3
        /\ IsStart(sent[1], name)
        /\ sent[1].res = "Ok" => Len(sent) = 1 /\ result = "Ok"
        /\ sent[1].res # "Ok" =>
            /\ Len(sent) >= 2
            /\ IsStop(sent[2])
            /\ sent[2].res # "Ok" => Len(sent) = 2 /\ result = sent[2].res
            /\ sent[2].res = "Ok" =>
                /\ Len(sent) = 3
                /\ IsStart(sent[3], name)
                /\ result = sent[3].res

\* the first start was refused by the service, the stop failed on the
\* socket: the socket's error was returned after two calls
C28_Witness ==
    /\ op = "run_sequence"
    /\ Len(sent) = 2
    /\ sent[1].res = "UnexpectedValue"
    /\ sent[2].res = "WebSocketError"
    /\ result = "WebSocketError"

----------------------------------------------------------------------------
(* C29 *)

AbsoluteMotion(inst) == inst.inst = "Execute" /\ inst.motion_type \in {"Joint", "Linear"}

\* C29: when an absolute-mode Motion Context is entered, the query of the
\* current pose comes first and is of the kind of the target; the Motion is
\* sent only after it, and not at all when the query failed; the pose the
\* entered context holds for its exit is the pose of that kind the robot had
\* before the Motion.
C29_QueryBeforeMotion ==
    [][op' = "enter" =>
        /\ \A k \in 1..Len(sent') :
            AbsoluteMotion(sent'[k]) =>
                /\ k = 2 /\ Len(sent') = 2
                /\ sent'[1] = Current(sent'[2].pose.kind)
        /\ (sent' # <<>> /\ sent'[1].inst = "Current") =>
            /\ Len(sent') = 1 =>
                result' # "Ok" /\ stack' = stack /\ robot' = robot
            /\ Len(sent') = 2 => AbsoluteMotion(sent'[2])
            /\ result' = "Ok" =>
                /\ Len(sent') = 2
                /\ Len(stack') = Len(stack) + 1
                /\ stack'[Len(stack')].ctx.motion_type = sent'[2].motion_type
                /\ stack'[Len(stack')].ctx.pose.kind = sent'[2].pose.kind
                /\ stack'[Len(stack')].ctx.pose.v =
                        current_pose(robot, sent'[2].pose.kind)]_vars

\* a Joint context with a Transform target was entered: the frame was
\* queried, the robot moved, and the context holds the frame left behind
C29_Witness ==
    /\ op = "enter" /\ result = "Ok"
    /\ sent = <<Current("Transform"),
                Motion("Joint", TransformPose([x |-> 1, rz |-> 0]))>>
    /\ stack[Len(stack)].ctx.pose = TransformPose([x |-> 0, rz |-> 0])
    /\ robot.frame = [x |-> 1, rz |-> 0]

----------------------------------------------------------------------------
(* C30 *)

\* the round trips on the wire before the last call
WireBefore == SubSeq(wire, 1, Len(wire) - Len(sent))

\* the commands of w acknowledged as enqueued since the last Dequeue sent
RECURSIVE Acknowledged(_)
Acknowledged(w) ==
    IF w = <<>> THEN <<>>
    ELSE LET trip == w[Len(w)]
             front == SubSeq(w, 1, Len(w) - 1)
         IN  CASE trip.inst \in {"Dequeue", "DequeuePush"} -> <<>>
               [] trip.inst = "Enqueue" /\ trip.outcome = "OK" ->
                    Append(Acknowledged(front), trip.cmd)
               [] OTHER -> Acknowledged(front)

\* a is b with some elements left out
RECURSIVE IsSubseq(_, _)
IsSubseq(a, b) ==
    IF a = <<>> THEN TRUE
    ELSE IF b = <<>> THEN FALSE
    ELSE IF Head(a) = Head(b) THEN IsSubseq(Tail(a), Tail(b))
    ELSE IsSubseq(a, Tail(b))

\* C30: a sequence that failed at its k-th Enqueue has sent Enqueues only, no
\* Dequeue after the failure, and its k-1 acknowledged commands are at the
\* end of the remote queue (followed by the k-th when the remote side took
\* it); a sequence that then succeeds makes the remote side run, in one
\* batch, what the queue held, every acknowledged leftover in its order,
\* and then its own commands.
C30_LeftoversRunFirst ==
    op = "sequence" =>
        LET k == Len(sent) IN
        /\ (\E j \in 1..k : sent[j].inst = "Enqueue" /\ sent[j].outcome # "OK") =>
            /\ result # "Ok"
            /\ \A j \in 1..k : sent[j].inst = "Enqueue"
            /\ sent[k].outcome # "OK"
            /\ \A r \in remote_after(wire) :
                \E r0 \in remote_after(WireBefore) :
                    /\ r.batch = r0.batch
                    /\ \/ r.queue = r0.queue \o SubSeq(given, 1, k - 1)
                       \/ r.queue = r0.queue \o SubSeq(given, 1, k)
            /\ Acknowledged(wire) = Acknowledged(WireBefore) \o SubSeq(given, 1, k - 1)
        /\ result = "Ok" =>
            \A r \in remote_after(wire) :
                /\ r.queue = <<>>
                /\ \E r0 \in remote_after(WireBefore) :
                    /\ r.batch = r0.queue \o given
                    /\ IsSubseq(Acknowledged(WireBefore), r0.queue)

\* a sequence of two Sleeps failed at its second Enqueue, then a sequence of
\* one SetParameter succeeded: the remote side ran the first Sleep and then
\* the SetParameter
C30_Witness ==
    /\ op = "sequence" /\ result = "Ok"
    /\ given = <<"SetParameter">>
    /\ Len(wire) = 4
    /\ wire[1].inst = "Enqueue" /\ wire[1].cmd = "Sleep" /\ wire[1].outcome = "OK"
    /\ wire[2].inst = "Enqueue" /\ wire[2].cmd = "Sleep" /\ wire[2].outcome = "NotOK"
    /\ [queue |-> <<>>, batch |-> <<"Sleep", "SetParameter">>] \in remote_after(wire)
    /\ \A r \in remote_after(wire) : r.batch[1] = "Sleep"

----------------------------------------------------------------------------
(* C31 *)

\* the round trips of w that are Pops, and those that are acknowledged pushes
PopsSent(w) == {k \in 1..Len(w) : w[k].inst = "Pop"}

PushesAcked(w) ==
    {k \in 1..Len(w) : w[k].inst \in {"ExecutePush", "DequeuePush"} /\ w[k].outcome = "OK"}

\* C31: the client has never sent more Pops than it has had pushes
\* acknowledged with OK, every Pop being the one Pop of the drop of a guard
\* whose push was acknowledged.
C31_PopsWithinPushes ==
    /\ Cardinality(PopsSent(wire)) <= Cardinality(PushesAcked(wire))
    /\ \A k \in PopsSent(wire) : wire[k].by \in PushesAcked(wire)

----------------------------------------------------------------------------
(* C32 *)

\* the place on the wire of the j-th round trip of the last call
At(j) == Len(wire) - Len(sent) + j

\* C32: when the k-th enter of a chain fails, the chain sends nothing more
\* than the Pops of the k-1 contexts it entered: each of them is exited
\* once, the one entered last first, no guard of the chain is left alive,
\* and the error of the k-th enter is what the statement returns.
C32_ChainUnwinds ==
    op = "with_chain" =>
        LET pushes == {j \in 1..Len(sent) : sent[j].inst = "ExecutePush"}
            k == Cardinality(pushes)
            entered == {j \in pushes : sent[j].outcome = "OK"}
            m == Cardinality(entered)
        IN  /\ pushes = 1..k
            /\ entered \in {1..k, 1..(k - 1)}
            /\ Len(sent) = k + m
            /\ \A j \in 1..m :
                /\ sent[k + j].inst = "Pop"
                /\ sent[k + j].by = At(m + 1 - j)
            /\ \A i \in 1..Len(guards) : guards[i] < At(1)
            /\ m < k => result = ErrorOf(sent[k].outcome)
            /\ m = k => result = "Ok"

\* the third enter of a chain failed after two were acknowledged: the second
\* context was exited, then the first
C32_Witness ==
    /\ op = "with_chain" /\ result # "Ok"
    /\ Len(sent) = 5
    /\ sent[3].inst = "ExecutePush" /\ sent[3].outcome # "OK"
    /\ sent[4].inst = "Pop" /\ sent[4].by = At(2)
    /\ sent[5].inst = "Pop" /\ sent[5].by = At(1)

----------------------------------------------------------------------------
(* C33 *)

\* C33: when the enter of a Motion Context fails, the context holds the pose
\* it was built with, the failing round trip is the last one sent (a failed
\* query of the current pose is followed by no Motion), nothing is pushed,
\* and the exit that follows sends the Motion of the entry that was on top
\* before, or nothing when there was none.
C33_FailedEnterLeavesNothing ==
    [][/\ (op' = "enter" /\ result' # "Ok") =>
            LET built == given'[1]
                left == given'[2]
                target == Motion(built.motion_type, built.pose)
            IN  /\ left = built
                /\ IF built.motion_type \in {"Joint", "Linear"}
                   THEN \/ sent' = <<Current(built.pose.kind)>> /\ robot' = robot
                        \/ sent' = <<Current(built.pose.kind), target>>
                   ELSE sent' = <<target>>
                /\ Len(stack') = Len(stack)
                /\ \A k \in 1..Len(stack) : stack'[k].ctx = stack[k].ctx
       /\ (op = "enter" /\ result # "Ok" /\ op' = "exit") =>
            /\ stack = <<>> => sent' = <<>> /\ result' = "NoContextToExit"
            /\ stack # <<>> =>
                sent' = <<Motion(stack[Len(stack)].ctx.motion_type,
                                 stack[Len(stack)].ctx.pose)>>]_vars

\* the Motion of an absolute context was refused after its query was
\* answered: the context still holds its target, and nothing was pushed
C33_Witness ==
    /\ op = "enter" /\ result = "ResponseError"
    /\ Len(sent) = 2 /\ sent[1].inst = "Current" /\ sent[2].inst = "Execute"
    /\ given[2] = given[1]
    /\ given[1].pose.v # current_pose(robot, given[1].pose.kind)
    /\ stack = <<>>

----------------------------------------------------------------------------
(* C34 *)

\* the Motions of ms whose pose is of the kind asked for, in order
OfKind(ms, kind) == SelectSeq(ms, LAMBDA m : m.pose.kind = kind)

\* the composition of the deltas of ms, all of one kind
RECURSIVE Composed(_, _)
Composed(ms, kind) ==
    IF ms = <<>> THEN IF kind = "Joint" THEN <<0, 0>> ELSE identity
    ELSE IF kind = "Joint"
         THEN add_joint(Head(ms).pose.v, Composed(Tail(ms), kind))
         ELSE mul(Head(ms).pose.v, Composed(Tail(ms), kind))

\* C34: relative Motion Contexts entered with D1..Dn and exited innermost
\* first send D1, .., Dn and then the inverses of Dn, .., D1; the deltas of
\* each kind compose to the identity, and the robot's pose of the kind the
\* contexts move is the pose it had before the first enter.
C34_NestedRelativeIdentity ==
    [][op' = "nested" =>
        LET n == Len(given') IN
        /\ Len(sent') = 2 * n
        /\ \A i \in 1..n :
            /\ sent'[i] = Motion(given'[i][1], given'[i][2])
            /\ sent'[2 * n + 1 - i].motion_type = given'[i][1]
            /\ IsInverse(given'[i][2], sent'[2 * n + 1 - i].pose)
        /\ Composed(OfKind(sent', "Transform"), "Transform") = identity
        /\ Composed(OfKind(sent', "Joint"), "Joint") = <<0, 0>>
        /\ \A kind \in {"Transform", "Joint"} :
            (\A i \in 1..n : given'[i][2].kind = kind) =>
                current_pose(robot', kind) = current_pose(robot, kind)]_vars

\* two contexts that turn the frame were nested, and two that move different
\* joints
C34_Witness ==
    /\ op = "nested" /\ Len(given) = 2
    /\ given[1] # given[2]
    /\ \/ given[1][2].kind = "Transform" /\ given[1][2].v = [x |-> 1, rz |-> 180]
          /\ given[2][2].kind = "Transform" /\ given[2][2].v.x # 0
       \/ given[1][2].kind = "Joint" /\ given[2][2].kind = "Joint"

----------------------------------------------------------------------------
(* C35 *)

\* the last call was the exit of a Parameter Context with no other one open
OutermostParamExit ==
    /\ op = "exit" /\ exited # <<>> /\ exited[1].kind = "Param"
    /\ \A k \in 1..Len(stack) : stack[k].kind # "Param"

\* the ParamStack is empty or has the machine default at its bottom, and the
\* exit of a Parameter Context leaves the default on it
C35_DefaultAtBottom ==
    /\ param_stack # <<>> => param_stack[1] = MotionParam_default
    /\ (op = "exit" /\ exited # <<>> /\ exited[1].kind = "Param") => param_stack # <<>>

\* C35: the ParamStack is never popped while empty, its bottom element is
\* the machine default whenever it is not empty, and the exit of an
\* outermost Parameter Context sends SetParameter of the machine default.
C35_OutermostExitSendsDefault ==
    /\ C35_DefaultAtBottom
    /\ OutermostParamExit => sent = <<SetParameter(MotionParam_default)>>

----------------------------------------------------------------------------
(* C36 *)

\* the places of the calls of one kind among the calls new_inovo made
CallsTo(call) == {k \in 1..Len(sent) : sent[k].service = call}

\* C36: new_inovo binds the listener before it starts the remote sequence
\* and accepts only after run_sequence returned Ok: bind is its first call,
\* an accept is its last call and follows a bind that was Ok and a
\* /sequence/start that was Ok; when bind or run_sequence fails no accept is
\* made and the error is returned.
C36_BindStartAccept ==
    op = "new_inovo" =>
        /\ CallsTo("bind") = {1}
        /\ \A k \in CallsTo("accept") :
            /\ k = Len(sent) /\ k > 2
            /\ sent[1].res = "Ok"
            /\ sent[k - 1].service = "/sequence/start" /\ sent[k - 1].res = "Ok"
            /\ \A j \in 2..(k - 1) : sent[j].service \in {"/sequence/start", "/sequence/stop"}
        /\ sent[1].res # "Ok" => (sent = <<SocketCall("bind", "IoError")>> /\ result = "SocketError")
        /\ (sent[1].res = "Ok" /\ sent[Len(sent)].service # "accept") =>
              /\ result = sent[Len(sent)].res
              /\ result \in {"WebSocketError", "UnexpectedValue"}
        /\ result = "Ok" <=> (CallsTo("accept") # {} /\ sent[Len(sent)].res = "Ok")

C36_Witness ==
    /\ op = "new_inovo" /\ result = "Ok"
    /\ Len(sent) = 5 /\ sent[5].service = "accept"

----------------------------------------------------------------------------
(* C37 *)

\* the open file had reached trigger_size when the message came
Triggered ==
    /\ given # <<>> /\ given[1].file_handle
    /\ file_len(sent[0]) >= given[1].trigger_size

\* the step rotated the files: new always does, a write when triggered
Rotates == op' = "rolling_new" \/ (op' = "rolling_log" /\ Triggered)

\* what a step of the rolling file does to the files of its name
RotationStep ==
    LET rolling_number == given'[1].rolling_number
        oldest == rolling_number - 1
    IN  /\ DOMAIN sent' \subseteq 0..oldest
        /\ \A i, j \in DOMAIN sent' : i < j => sent'[i].born > sent'[j].born
        /\ Rotates =>
            /\ \A i \in DOMAIN sent : i # oldest =>
                    i + 1 \in DOMAIN sent' /\ sent'[i + 1] = sent[i]
            /\ \A k \in DOMAIN sent' \ {0} : k - 1 \in DOMAIN sent
            /\ oldest \in DOMAIN sent =>
                    \A k \in DOMAIN sent' : sent'[k].born # sent[oldest].born
        /\ op' = "rolling_new" => 0 \notin DOMAIN sent'
        /\ (op' = "rolling_log" /\ (Triggered \/ ~given[1].file_handle)) =>
            /\ 0 \in DOMAIN sent' /\ Len(sent'[0].data) = 1
            /\ sent'[0].born = given'[1].written
        /\ (op' = "rolling_log" /\ ~Rotates) =>
            /\ DOMAIN sent' = DOMAIN sent \cup {0}
            /\ \A k \in DOMAIN sent \ {0} : sent'[k] = sent[k]
            /\ given[1].file_handle =>
                /\ sent'[0].born = sent[0].born
                /\ Len(sent'[0].data) = Len(sent[0].data) + 1
                /\ SubSeq(sent'[0].data, 1, Len(sent[0].data)) = sent[0].data

\* a rolling file made to keep one file or more does all of it
C37_FromOneFile == [][given'[1].rolling_number >= 1 => RotationStep]_vars

\* C37: the files of a rolling file are at most rolling_number, at the
\* indices 0..rolling_number-1, an older file at a higher index; a rotation
\* deletes the file at rolling_number-1 and moves every other file from i
\* to i+1, losing none of them; a write rotates exactly when the open file
\* has reached trigger_size, and then writes to a new file at index 0.
C37_RotationKeepsFiles == [][RotationStep]_vars

----------------------------------------------------------------------------
(* C38 *)

\* the k-th poll of the call reported a state that is not Stop
Waiting(k) == reply[k].ok /\ reply[k].state \in {"1", "2", "3"}

\* the k-th poll of the call reported Stop
Stopped(k) == reply[k].ok /\ reply[k].state = "0"

\* C38: until_sequence_stop has returned Ok only when its last poll
\* reported Stop; it has not returned as long as every poll reported
\* Running, Pause or Disabled; a poll that failed or reported no known
\* state is its last, and its error is what is returned.
C38_PollsUntilStop ==
    op = "until_sequence_stop" =>
        /\ \A k \in 1..(Len(reply) - 1) : Waiting(k)
        /\ result = "Ok" <=> (reply # <<>> /\ Stopped(Len(reply)))
        /\ result = "None" <=> \A k \in 1..Len(reply) : Waiting(k)
        /\ \A k \in 1..Len(reply) :
            /\ ~reply[k].ok => result = "WebSocketError"
            /\ (reply[k].ok /\ ~Waiting(k) /\ ~Stopped(k)) => result = "UnexpectedValue"

C38_Witness ==
    /\ op = "until_sequence_stop" /\ result = "Ok"
    /\ Len(reply) = 3 /\ reply[1].state = "2" /\ reply[2].state = "3"

----------------------------------------------------------------------------
(* C39 *)

\* the line is the reply of the handler of connection k to the line the
\* client c wrote in the same round
Answers(line, k, c) ==
    /\ line.from[1] = "server" /\ reply[line.from[2]].conn = k
    /\ line.re = <<<<"client", c>>, line.i>>

\* no thread has failed, some thread can run until all have been joined,
\* and on every connection at most one line is on its way, a line to the
\* client is the one reply to the write the client waits on, and the line a
\* client has read last is the reply to its last write
SocketSafe ==
    /\ result # "Panic"
    /\ \A c \in 1..Len(given) : given[c].pc # "failed"
    /\ \A h \in 1..Len(reply) : reply[h].pc # "failed"
    /\ op \in {"new", "socket_test", "connect", "client", "accept", "handle"} =>
            ENABLED NextSocket
    /\ \A k \in 1..Len(sent) :
        LET connection == sent[k]
            thread == given[connection.client]
        IN  /\ thread.conn = k
            /\ Len(connection.up) + Len(connection.down) <= 1
            /\ \A j \in 1..Len(connection.down) :
                /\ Answers(connection.down[j], k, connection.client)
                /\ thread.pc = "round" /\ thread.i = connection.down[j].i
                /\ client_round[thread.step] = "read"
            /\ thread.got # <<>> =>
                /\ Answers(thread.got[1], k, connection.client)
                /\ thread.got[1].i = IF thread.pc = "done" THEN MSG_COUNT - 1
                                     ELSE thread.i - 1

\* C39: with every interleaving of the connects, accepts, writes and reads
\* of the clients and handlers no thread fails and none waits for ever;
\* every write of a client is answered by one reply on its connection; and
\* all threads end and are joined with Ok.
C39_AllTerminate == []SocketSafe /\ <>(op = "joined" /\ result = "Ok")

C39_Witness ==
    /\ op = "joined" /\ result = "Ok"
    /\ Len(given) = MaxClients /\ Len(sent) = MaxClients
    /\ sent[1].client = MaxClients
    /\ \A c \in 1..Len(given) : given[c].got # <<>> /\ given[c].got[1].i = MSG_COUNT - 1

====
